---- MODULE Spec2Model ----
(***************************************************************************)
(* Model of the Vietnamese legal document splitter                         *)
(*   src/web-app/backend/src/core/document_splitter.py  (split_document)   *)
(*   src/web-app/backend/src/core/can_cu_handler.py     (legal basis)      *)
(*   src/backend/gen_meta/quyet_dinh_handler.py         (decision block)   *)
(*                                                                         *)
(* A text is a sequence of lines.  A line is a record that says which of   *)
(* the splitter's regular expressions match it:                            *)
(*   k = "blank"    whitespace-only line                                   *)
(*       "plain"    text that no pattern matches                           *)
(*       "so"       "So: 429/QD-..." header line (no splitting pattern)    *)
(*       "date"     "..., ngay 22 thang 6 nam 2022" (no splitting pattern) *)
(*       "cancu"    "Can cu ..."                                           *)
(*       "theo"     "Theo de nghi ..."                                     *)
(*       "qd"       "QUYET DINH:"  (with colon)                            *)
(*       "qdtitle"  "QUYET DINH"   (no colon, the document title line)     *)
(*       "dieu"     "Dieu n. title" (b: written "**Dieu n.** title")       *)
(*       "num"      "n. text" numbered clause line                         *)
(*       "chuong"   "**Chuong II - title**" (b = TRUE) / unbold (b = FALSE)*)
(*       "phuluc"   "**Phu luc n - title**" (b = TRUE) / "Phu luc n"       *)
(*       "noinhan"  "Noi nhan:" written with its Vietnamese diacritics     *)
(*       "noinhan_ascii"  "Noi nhan:" written without diacritics           *)
(*   n = the number of a "dieu", "num" or "phuluc" line, 0 otherwise       *)
(*   t = for a "dieu" line, which of the substrings "va" (the word "và"),  *)
(*       "scope" ("phạm vi điều chỉnh"), "subject" ("đối tượng áp dụng")   *)
(*       occur in its title                                                *)
(*   b = the line carries markdown bold markers                            *)
(*       "dieu_cut" a bold "dieu" line without its leading "**" (what a     *)
(*                  match of the unanchored pattern "Dieu n" starts with)   *)
(*       "stars"    the "**" left at the end of a text cut before "Dieu"    *)
(*       "null"     stands for a content that is not a string              *)
(* Character offsets of the code are line indexes here: every pattern of   *)
(* the code is anchored at a line start.                                   *)
(***************************************************************************)
EXTENDS Integers, Sequences, FiniteSets, TLC

VARIABLES text, pc, sections, blocks, can_cu, quyet_dinh, llm, infos, meta,
          classify_input, category,
          use_llm, llm_service, cached_keyword, _cached_title, document_title,
          keyword, called,
          md_blocks, markdown,
          now, metadata_blocks, saved_blocks,
          span,
          chunk, chunk_result,
          date_text, date_str,
          documents, _llm_service_instance, splitters, returned,
          runtime_keywords, DEPARTMENT_KEYWORDS, DEFAULT_DEPARTMENT

\* The state of the splitter (pc apart), of the category classifier, of the
\* keyword generator, of the Markdown serializer, of the database, and of
\* everything but one of them.
splitVars == <<text, sections, blocks, can_cu, quyet_dinh, llm, infos, meta>>

classifyVars == <<classify_input, category>>

keywordVars ==
    <<use_llm, llm_service, cached_keyword, _cached_title, document_title, keyword, called>>

markdownVars == <<md_blocks, markdown>>

storageVars == <<now, metadata_blocks, saved_blocks>>

\* The result of find_quyet_dinh_span.
spanVars == <<span>>

\* The request to and the answer of the classifier of the web application.
chunkVars == <<chunk, chunk_result>>

\* The text a date is extracted from, and the date extracted.
dateVars == <<date_text, date_str>>

\* The state shared by the documents of a process: the documents, the LLM service singleton, the splitters, what split_document returned, and the module-level keyword tables.
sharedVars == <<documents, _llm_service_instance, splitters, returned,
          runtime_keywords, DEPARTMENT_KEYWORDS, DEFAULT_DEPARTMENT>>

exceptSplit == <<classifyVars, keywordVars, markdownVars, storageVars, spanVars, chunkVars, dateVars, sharedVars>>

exceptClassify == <<splitVars, keywordVars, markdownVars, storageVars, spanVars, chunkVars, dateVars, sharedVars>>

exceptKeyword == <<splitVars, classifyVars, markdownVars, storageVars, spanVars, chunkVars, dateVars, sharedVars>>

exceptMarkdown == <<splitVars, classifyVars, keywordVars, storageVars, spanVars, chunkVars, dateVars, sharedVars>>

exceptStorage == <<splitVars, classifyVars, keywordVars, spanVars, chunkVars, dateVars, sharedVars>>

exceptSpan == <<splitVars, classifyVars, keywordVars, markdownVars, storageVars, chunkVars, dateVars, sharedVars>>

exceptChunk == <<splitVars, classifyVars, keywordVars, markdownVars, storageVars, spanVars, dateVars, sharedVars>>

exceptDate == <<splitVars, classifyVars, keywordVars, markdownVars, storageVars, spanVars, chunkVars, sharedVars>>

exceptShared == <<splitVars, classifyVars, keywordVars, markdownVars, storageVars, spanVars, chunkVars, dateVars>>

vars == <<pc, splitVars, classifyVars, keywordVars, markdownVars, storageVars, spanVars, chunkVars, dateVars, sharedVars>>

----------------------------------------------------------------------------
(* Lines *)

L(k) == [k |-> k, n |-> 0, t |-> {}, b |-> FALSE]

Dieu(n, t) == [k |-> "dieu", n |-> n, t |-> t, b |-> FALSE]

BoldDieu(n, t) == [k |-> "dieu", n |-> n, t |-> t, b |-> TRUE]

Num(n) == [k |-> "num", n |-> n, t |-> {}, b |-> FALSE]

Chuong == [k |-> "chuong", n |-> 0, t |-> {}, b |-> TRUE]

PhuLuc(n) == [k |-> "phuluc", n |-> n, t |-> {}, b |-> TRUE]

PhuLucPlain(n) == [k |-> "phuluc", n |-> n, t |-> {}, b |-> FALSE]

Blank == L("blank")

----------------------------------------------------------------------------
(* The patterns of the code, as predicates on a line *)

\* patterns['legal_basis_start']: ^\s*(Căn\s*cứ|Theo)\b.*$
IsLegalBasisStart(l) == l.k \in {"cancu", "theo"}

\* ^\s*QUYẾT\s*ĐỊNH (case-insensitive): with or without the colon
IsQuyetDinhLine(l) == l.k \in {"qd", "qdtitle"}

\* patterns['article']: ^\s*\*?\*?Điều\s+([0-9]+)\.?\*?\*?\s*(.*)$
IsArticle(l) == l.k = "dieu"

\* ^\s*\*\*Điều\s+\d+ : only the bold form
IsBoldDieu(l) == l.k = "dieu" /\ l.b

\* ^\s*Điều\s+\d+ : only the form without bold markers
IsPlainDieu(l) == l.k = "dieu" /\ ~l.b

\* ^\s*([0-9]+)\.\s+(.*)$
IsKhoanLine(l) == l.k = "num"

\* ^\s*\*\*Chương\s+[IVXLC\d]+ : only the bold form
IsBoldChuong(l) == l.k = "chuong" /\ l.b

\* ^\s*\*\*Phụ\s+lục\s+([0-9]+)\s*—\s*(.*?)\*\* : only the bold form
IsBoldPhuLuc(l) == l.k = "phuluc" /\ l.b

\* ^\s*Phụ\s+lục : only the form without bold markers
IsPlainPhuLuc(l) == l.k = "phuluc" /\ ~l.b

\* ^\s*Nơi\s+nhận (case-insensitive)
IsNoiNhan(l) == l.k = "noinhan"

\* ^\s*N[ơo]i\s+nh[aă]n\s*:.* : the class [aă] has no "ậ", so the pattern
\* matches only a line written without the diacritics of "nhận"
IsNoiNhanTail(l) == l.k = "noinhan_ascii"

IsBlank(l) == l.k = "blank"

----------------------------------------------------------------------------
(* Strings as sequences of lines *)

Min(I) == CHOOSE i \in I : \A j \in I : i <= j

\* re.search reports the leftmost match: the least of the line indexes I
\* the pattern matches, 0 when there is none.
Search(I) == IF I = {} THEN 0 ELSE Min(I)

\* Every pattern starts with ^\s*, and \s also matches line breaks: a match
\* of line i starts at the first line of the whitespace-only lines that
\* directly precede line i.
RECURSIVE MatchStart(_, _)
MatchStart(s, i) ==
    IF i > 1 /\ IsBlank(s[i - 1]) THEN MatchStart(s, i - 1) ELSE i

\* s[a:b] for line starts a and b (b = Len(s) + 1 is len(s)): the lines
\* a..b-1; when b is the start of a line, the slice ends with the line break
\* of line b-1, which split('\n') and strip() see as a trailing empty line.
Slice(s, a, b) ==
    IF b <= a THEN <<>>
    ELSE SubSeq(s, a, b - 1) \o (IF b <= Len(s) THEN <<Blank>> ELSE <<>>)

\* str.strip() on a sequence of lines: the whitespace-only lines at both ends
\* go away.
RECURSIVE LStrip(_)
LStrip(s) == IF s # <<>> /\ IsBlank(Head(s)) THEN LStrip(Tail(s)) ELSE s

RECURSIVE RStrip(_)
RStrip(s) ==
    IF s # <<>> /\ IsBlank(s[Len(s)]) THEN RStrip(SubSeq(s, 1, Len(s) - 1)) ELSE s

Strip(s) == RStrip(LStrip(s))

\* The members of a set of line indexes, in increasing order (finditer).
RECURSIVE InOrder(_)
InOrder(I) ==
    IF I = {} THEN <<>>
    ELSE LET m == CHOOSE i \in I : \A j \in I : i <= j
         IN  <<m>> \o InOrder(I \ {m})

----------------------------------------------------------------------------
(* document_splitter.py: the rule-based splitter *)

\* A section: section_type, section_content and the section_info entries
\* article_num (num), khoan_num (khoan) and article_title (title).
Section(type, content, num, khoan, title) ==
    [type |-> type, content |-> content, num |-> num, khoan |-> khoan, title |-> title]

\* text[:m.start()] for the first line the tail pattern matches
_cut_noi_nhan_tail(s) ==
    LET m == Search({i \in 1..Len(s) : IsNoiNhanTail(s[i])})
    IN  IF m = 0 THEN s ELSE Slice(s, 1, MatchStart(s, m))

\* The test below with a slip: a title with "và" is not taken.
_is_d1_scope_and_subject_no_va(title) ==
    "scope" \in title /\ "subject" \in title /\ "va" \notin title

_is_d1_scope_and_subject(title) == "scope" \in title /\ "subject" \in title

_is_scope_only(title) == "scope" \in title /\ "subject" \notin title

_is_subject_only(title) == "subject" \in title /\ "scope" \notin title

\* The loop below with a slip: once in the legal basis, only opener lines
\* are appended.
RECURSIVE LegalBasisLoopOpenersOnly(_, _, _, _)
LegalBasisLoopOpenersOnly(lines, i, in_legal_basis, legal_lines) ==
    IF i > Len(lines) THEN legal_lines
    ELSE IF IsLegalBasisStart(lines[i])
         THEN LegalBasisLoopOpenersOnly(lines, i + 1, TRUE, Append(legal_lines, lines[i]))
    ELSE IF in_legal_basis
         THEN IF IsQuyetDinhLine(lines[i]) \/ IsBoldDieu(lines[i])
              THEN legal_lines
              ELSE LegalBasisLoopOpenersOnly(lines, i + 1, TRUE, legal_lines)
    ELSE LegalBasisLoopOpenersOnly(lines, i + 1, FALSE, legal_lines)

\* The loop of _extract_legal_basis_grouped over lines[i..], in_legal_basis
\* and legal_lines being the loop's variables.
RECURSIVE LegalBasisLoop(_, _, _, _)
LegalBasisLoop(lines, i, in_legal_basis, legal_lines) ==
    IF i > Len(lines) THEN legal_lines
    ELSE IF IsLegalBasisStart(lines[i])
         THEN LegalBasisLoop(lines, i + 1, TRUE, Append(legal_lines, lines[i]))
    ELSE IF in_legal_basis
         THEN IF IsQuyetDinhLine(lines[i]) \/ IsBoldDieu(lines[i])
              THEN legal_lines
              ELSE LegalBasisLoop(lines, i + 1, TRUE, Append(legal_lines, lines[i]))
    ELSE LegalBasisLoop(lines, i + 1, FALSE, legal_lines)

_extract_legal_basis_grouped(s) == LegalBasisLoop(s, 1, FALSE, <<>>)

\* The loop of _extract_quyet_dinh_section.
RECURSIVE QuyetDinhLoop(_, _, _, _)
QuyetDinhLoop(lines, i, in_quyet_dinh, quyet_dinh_lines) ==
    IF i > Len(lines) THEN quyet_dinh_lines
    ELSE IF IsQuyetDinhLine(lines[i])
         THEN QuyetDinhLoop(lines, i + 1, TRUE, Append(quyet_dinh_lines, lines[i]))
    ELSE IF in_quyet_dinh
         THEN IF IsLegalBasisStart(lines[i]) \/ IsPlainDieu(lines[i])
              THEN quyet_dinh_lines
              ELSE QuyetDinhLoop(lines, i + 1, TRUE, Append(quyet_dinh_lines, lines[i]))
    ELSE QuyetDinhLoop(lines, i + 1, FALSE, quyet_dinh_lines)

\* The function below with a slip: the section never stops.
_extract_quyet_dinh_to_end(s) ==
    LET m == Search({i \in 1..Len(s) : IsQuyetDinhLine(s[i])})
    IN  IF m = 0 THEN <<>> ELSE SubSeq(s, m, Len(s))

_extract_quyet_dinh_section(s) == QuyetDinhLoop(s, 1, FALSE, <<>>)

\* One 'chuong' section per bold chapter heading: the heading itself.
_extract_chuong_sections(s) ==
    LET m == InOrder({i \in 1..Len(s) : IsBoldChuong(s[i])})
    IN  [j \in 1..Len(m) |-> Section("chuong", <<s[m[j]]>>, 0, 0, {})]

\* The end below with a slip: the last clause always runs to the end of the
\* article text.
KhoanEndOfArticle(article_text, start_pos) == Len(article_text) + 1

\* The end of the last clause of an article: the first boundary after it.
KhoanEnd(article_text, start_pos) ==
    LET rest         == start_pos..Len(article_text)
        next_dieu    == Search({i \in rest : IsPlainDieu(article_text[i])})
        next_chuong  == Search({i \in rest : IsBoldChuong(article_text[i])})
        next_phu_luc == Search({i \in rest : IsPlainPhuLuc(article_text[i])})
        next_boundaries ==
            {MatchStart(article_text, i) : i \in {next_dieu, next_chuong, next_phu_luc} \ {0}}
    IN  IF next_boundaries # {} THEN Min(next_boundaries) ELSE Len(article_text) + 1

\* The 'khoan' sections of the numbered lines m[j..] of an article.
RECURSIVE KhoanLoop(_, _, _, _, _)
KhoanLoop(article_text, article_num, article_title, m, j) ==
    IF j > Len(m) THEN <<>>
    ELSE LET start_pos  == MatchStart(article_text, m[j])
             end_pos    == IF j + 1 <= Len(m)
                           THEN MatchStart(article_text, m[j + 1])
                           ELSE KhoanEnd(article_text, start_pos)
             khoan_text == Strip(Slice(article_text, start_pos, end_pos))
         IN  (IF khoan_text # <<>>
              THEN <<Section("khoan", khoan_text, article_num, article_text[m[j]].n,
                              article_title)>>
              ELSE <<>>)
             \o KhoanLoop(article_text, article_num, article_title, m, j + 1)

\* The function below with a slip: the title is not asked for "và".
_split_by_khoan_clauses_any_title(article_text, article_num, article_title) ==
    LET khoan_matches ==
            InOrder({i \in 1..Len(article_text) : IsKhoanLine(article_text[i])})
    IN  IF _is_subject_only(article_title) \/ khoan_matches = <<>>
        THEN <<Section("article", article_text, article_num, 0, article_title)>>
        ELSE KhoanLoop(article_text, article_num, article_title, khoan_matches, 1)

_split_by_khoan_clauses(article_text, article_num, article_title) ==
    IF _is_subject_only(article_title)
    THEN <<Section("article", article_text, article_num, 0, article_title)>>
    ELSE IF "va" \in article_title
    THEN LET khoan_matches ==
                 InOrder({i \in 1..Len(article_text) : IsKhoanLine(article_text[i])})
         IN  IF khoan_matches # <<>>
             THEN KhoanLoop(article_text, article_num, article_title, khoan_matches, 1)
             ELSE <<Section("article", article_text, article_num, 0, article_title)>>
    ELSE <<Section("article", article_text, article_num, 0, article_title)>>

\* The end of the last article: the first "Nơi nhận" or "Phụ lục" after it.
ArticleEnd(s, start_pos) ==
    LET noi_nhan_match == Search({i \in start_pos..Len(s) : IsNoiNhan(s[i])})
        phu_luc_match  == Search({i \in start_pos..Len(s) : IsPlainPhuLuc(s[i])})
        next_boundaries ==
            {MatchStart(s, i) : i \in {noi_nhan_match, phu_luc_match} \ {0}}
    IN  IF next_boundaries # {} THEN Min(next_boundaries) ELSE Len(s) + 1

\* The loop below with a slip: every article is given the end of the last one.
RECURSIVE ArticleLoopToEnd(_, _, _)
ArticleLoopToEnd(s, m, i) ==
    IF i > Len(m) THEN <<>>
    ELSE LET article_num   == s[m[i]].n
             article_title == s[m[i]].t
             start_pos     == MatchStart(s, m[i])
             article_text  == Slice(s, start_pos, ArticleEnd(s, start_pos))
             whole         == <<Section("article", article_text, article_num, 0, article_title)>>
         IN  (IF article_num = 1 /\ _is_d1_scope_and_subject(article_title) THEN whole
              ELSE IF article_num = 1 /\ _is_scope_only(article_title) THEN whole
              ELSE _split_by_khoan_clauses(article_text, article_num, article_title))
             \o ArticleLoopToEnd(s, m, i + 1)

\* The sections of the article matches m[i..].
RECURSIVE ArticleLoop(_, _, _)
ArticleLoop(s, m, i) ==
    IF i > Len(m) THEN <<>>
    ELSE LET article_num   == s[m[i]].n
             article_title == s[m[i]].t
             start_pos     == MatchStart(s, m[i])
             end_pos       == IF i + 1 <= Len(m)
                              THEN MatchStart(s, m[i + 1])
                              ELSE ArticleEnd(s, start_pos)
             article_text  == Slice(s, start_pos, end_pos)
             whole         == <<Section("article", article_text, article_num, 0, article_title)>>
         IN  (IF article_num = 1 /\ _is_d1_scope_and_subject(article_title) THEN whole
              ELSE IF article_num = 1 /\ _is_scope_only(article_title) THEN whole
              ELSE _split_by_khoan_clauses(article_text, article_num, article_title))
             \o ArticleLoop(s, m, i + 1)

\* The 'phu_luc' sections of the bold appendix headings m[j..].  The search
\* for the next heading runs on text[start_pos + 1:]: when whitespace-only
\* lines precede the heading, start_pos is the first of them and the search
\* finds this same heading at offset 0, so the span is one whitespace
\* character and the section is dropped.
RECURSIVE PhuLucLoop(_, _, _)
PhuLucLoop(s, m, j) ==
    IF j > Len(m) THEN <<>>
    ELSE LET start_pos    == MatchStart(s, m[j])
             next_phu_luc == Search({i \in (m[j] + 1)..Len(s) : IsBoldPhuLuc(s[i])})
             phu_luc_text ==
                 IF start_pos < m[j] THEN Strip(<<Blank>>)
                 ELSE IF next_phu_luc # 0
                      THEN Strip(Slice(s, start_pos, MatchStart(s, next_phu_luc)))
                      ELSE Strip(Slice(s, start_pos, Len(s) + 1))
         IN  (IF phu_luc_text # <<>>
              THEN <<Section("phu_luc", phu_luc_text, s[m[j]].n, 0, {})>>
              ELSE <<>>)
             \o PhuLucLoop(s, m, j + 1)

_extract_phu_luc_sections(s) ==
    PhuLucLoop(s, InOrder({i \in 1..Len(s) : IsBoldPhuLuc(s[i])}), 1)

_extract_articles_with_new_rules(s) ==
    _extract_chuong_sections(s)
    \o ArticleLoop(s, InOrder({i \in 1..Len(s) : IsArticle(s[i])}), 1)
    \o _extract_phu_luc_sections(s)

_split_by_hierarchy(input) ==
    LET s == _cut_noi_nhan_tail(input)
        legal_basis_content == _extract_legal_basis_grouped(s)
        quyet_dinh_content  == _extract_quyet_dinh_section(s)
    IN  (IF legal_basis_content # <<>>
         THEN <<Section("legal_basis", legal_basis_content, 0, 0, {})>> ELSE <<>>)
        \o (IF quyet_dinh_content # <<>>
            THEN <<Section("quyet_dinh", quyet_dinh_content, 0, 0, {})>> ELSE <<>>)
        \o _extract_articles_with_new_rules(s)

\* The loop below with a slip: blank sections are not skipped.
RECURSIVE BlockLoopKeepBlank(_)
BlockLoopKeepBlank(secs) ==
    IF secs = <<>> THEN <<>>
    ELSE <<[Head(secs) EXCEPT !.content = Strip(Head(secs).content)]>>
         \o BlockLoopKeepBlank(Tail(secs))

\* The loop of split_document over the sections: blank sections are skipped,
\* the others become blocks with their content stripped.
RECURSIVE BlockLoop(_)
BlockLoop(secs) ==
    IF secs = <<>> THEN <<>>
    ELSE (IF Strip(Head(secs).content) = <<>> THEN <<>>
          ELSE <<[Head(secs) EXCEPT !.content = Strip(Head(secs).content)]>>)
         \o BlockLoop(Tail(secs))

----------------------------------------------------------------------------
(* can_cu_handler.py and quyet_dinh_handler.py: the stand-alone builders *)

\* str.replace('*', '') on a line: the bold markers go away.
Unstar(l) == [l EXCEPT !.b = FALSE]

\* (QUYẾT[\s]*ĐỊNH|Quyết[\s]*định)\s*: anywhere in the line
HasQuyetDinhColon(l) == l.k = "qd"

\* Căn\s*cứ|Theo\s+đề\s+nghị anywhere in the line
HasCanCu(l) == l.k \in {"cancu", "theo"}

\* Nơi\s+nhận\s*: (case-insensitive) anywhere in the line
HasNoiNhanColon(l) == l.k = "noinhan"

\* The loop below with a slip: a "QUYẾT ĐỊNH:" line stops the loop only once
\* an opener line has been seen.
RECURSIVE CanCuLoopStopInBlock(_, _, _, _)
CanCuLoopStopInBlock(lines, i, in_basis_block, legal_basis_lines) ==
    IF i > Len(lines) THEN legal_basis_lines
    ELSE IF in_basis_block /\ HasQuyetDinhColon(lines[i]) THEN legal_basis_lines
    ELSE IF HasCanCu(lines[i])
         THEN CanCuLoopStopInBlock(lines, i + 1, TRUE, Append(legal_basis_lines, lines[i]))
    ELSE IF in_basis_block
         THEN CanCuLoopStopInBlock(lines, i + 1, TRUE, Append(legal_basis_lines, lines[i]))
    ELSE CanCuLoopStopInBlock(lines, i + 1, FALSE, legal_basis_lines)

\* The loop of create_can_cu_blocks.
RECURSIVE CanCuLoop(_, _, _, _)
CanCuLoop(lines, i, in_basis_block, legal_basis_lines) ==
    IF i > Len(lines) THEN legal_basis_lines
    ELSE IF HasQuyetDinhColon(lines[i]) THEN legal_basis_lines
    ELSE IF HasCanCu(lines[i])
         THEN CanCuLoop(lines, i + 1, TRUE, Append(legal_basis_lines, lines[i]))
    ELSE IF in_basis_block
         THEN CanCuLoop(lines, i + 1, TRUE, Append(legal_basis_lines, lines[i]))
    ELSE CanCuLoop(lines, i + 1, FALSE, legal_basis_lines)

create_can_cu_blocks(s) ==
    LET joined         == Strip(CanCuLoop(s, 1, FALSE, <<>>))
        can_cu_content == [i \in 1..Len(joined) |-> Unstar(joined[i])]
    IN  IF can_cu_content # <<>>
        THEN <<Section("legal_basis", can_cu_content, 0, 0, {})>>
        ELSE <<>>

extract_quyet_dinh_block(s) ==
    LET m_start == Search({i \in 1..Len(s) : HasQuyetDinhColon(s[i])})
        m_noi   == IF m_start = 0 THEN 0
                   ELSE Search({i \in m_start..Len(s) : HasNoiNhanColon(s[i])})
        end_idx == IF m_noi # 0 THEN m_noi ELSE Len(s) + 1
        block   == IF m_start = 0 THEN <<>> ELSE Slice(s, m_start, end_idx)
    IN  Strip([i \in 1..Len(block) |-> Unstar(block[i])])

----------------------------------------------------------------------------
(* llm_service.py and the LLM path of split_document *)

\* What the LLM capability does in one run of split_document: enabled is
\* llm_enabled and use_llm; split.ok says the split call returned a JSON
\* array (FALSE: the call raised or the answer could not be parsed) and
\* split.blocks are the entries of the array.
\* category is the category the classification calls answer, "" when they
\* raise.
LLMOutcome(enabled, ok, answer, category_answer) ==
    [enabled |-> enabled, split |-> [ok |-> ok, blocks |-> answer],
     category |-> category_answer]

\* use_llm = False, or the service is not available at construction.
LLMOff == LLMOutcome(FALSE, FALSE, <<>>, "")

\* An entry of the answer: valid says it is an object with a 'content' key.
Entry(valid, block_type, content) ==
    [valid |-> valid, block_type |-> block_type, content |-> content]

\* A content that is not a string (null, a number, a list).
NullContent == <<L("null")>>

IsString(content) == content # NullContent

\* Điều\s+(\d+)\.?\s*(.*) is not anchored: a match starts at the word "Điều",
\* after the bold markers of a bold heading.
CutBold(l) == IF l.b THEN [l EXCEPT !.k = "dieu_cut"] ELSE l

\* _split_content_fallback: one 'article' entry per "Điều n", from the word
\* "Điều" to the next match; the "**" in front of a bold next heading stay
\* at the end of the entry.
_split_content_fallback(s) ==
    LET m == InOrder({i \in 1..Len(s) : IsArticle(s[i])})
    IN  [i \in 1..Len(m) |->
            LET last == IF i + 1 <= Len(m) THEN m[i + 1] - 1 ELSE Len(s)
                tail == IF i + 1 <= Len(m) /\ s[m[i + 1]].b THEN <<L("stars")>> ELSE <<>>
            IN  Entry(TRUE, "article",
                      Strip(<<CutBold(s[m[i]])>> \o SubSeq(s, m[i] + 1, last) \o tail))]

\* split_content_intelligently and _parse_split_response: the entries of the
\* answer that are objects with a 'content' key, or the fallback split.
split_content_intelligently(s, outcome) ==
    IF outcome.split.ok
    THEN SelectSeq(outcome.split.blocks, LAMBDA e : e.valid)
    ELSE _split_content_fallback(s)

\* The number of the first "Điều n" of a content, 0 when there is none.
FirstDieuNum(content) ==
    LET m == Search({i \in 1..Len(content) : content[i].k \in {"dieu", "dieu_cut"}})
    IN  IF m = 0 THEN 0 ELSE content[m].n

\* _split_with_llm: the entries as sections; re.search on a content that is
\* not a string raises for an 'article' or 'khoan' entry, and the function
\* then returns the rule-based sections.
_split_with_llm(s, outcome) ==
    LET entries == split_content_intelligently(s, outcome)
    IN  IF \E i \in 1..Len(entries) :
               entries[i].block_type \in {"article", "khoan"} /\ ~IsString(entries[i].content)
        THEN _split_by_hierarchy(s)
        ELSE [i \in 1..Len(entries) |->
                 Section(entries[i].block_type, entries[i].content,
                         IF entries[i].block_type = "article"
                         THEN FirstDieuNum(entries[i].content) ELSE 0,
                         0, {})]

----------------------------------------------------------------------------
(* The source and the category of a block *)

\* A source: "Can cu", "Quyet dinh", "Dieu" n, "Dieu -> Khoan" n khoan,
\* "Chuong", "Phu luc" n, "title" (the line taken as the title of the
\* document), "Tai lieu phap ly" (the title of a document without one), ""
\* (no source).
Source(kind, n, khoan, line) == [k |-> kind, n |-> n, khoan |-> khoan, line |-> line]

NoSource == Source("", 0, 0, Blank)

\* The line holds one of 'ĐẠI HỌC', 'TRƯỜNG', 'SỐ:', 'NGÀY' in upper case:
\* the number and the date lines.
IsHeaderLine(l) == l.k \in {"so", "date"}

\* The line has more than 20 characters, not all upper case, and does not
\* start with "**": the lines of a basis ('Căn cứ Luật Giáo dục;' is the
\* shortest taken) and the headings of articles that are not bold.
IsTitleLike(l) == l.k \in {"cancu", "theo"} \/ (l.k \in {"dieu", "dieu_cut"} /\ ~l.b)

\* The loop of _extract_document_title over the first lines.
RECURSIVE TitleLoop(_, _)
TitleLoop(lines, i) ==
    IF i > Len(lines) \/ i > 10 THEN NoSource
    ELSE IF lines[i] = Blank \/ IsHeaderLine(lines[i]) THEN TitleLoop(lines, i + 1)
    ELSE IF lines[i].k = "qdtitle" /\ i + 1 <= Len(lines)
             /\ lines[i + 1] # Blank /\ lines[i + 1].k # "cancu"
         THEN Source("title", 0, 0, lines[i + 1])
    ELSE IF IsTitleLike(lines[i]) THEN Source("title", 0, 0, lines[i])
    ELSE TitleLoop(lines, i + 1)

_extract_document_title(s) ==
    LET first == Search({i \in 1..Len(s) : i <= 10 /\ s[i] # Blank /\ ~IsHeaderLine(s[i])})
    IN  IF TitleLoop(s, 1) # NoSource THEN TitleLoop(s, 1)
        ELSE IF first # 0 THEN Source("title", 0, 0, s[first])
        ELSE Source("Tai lieu phap ly", 0, 0, Blank)

\* The 'source' entry of the section_info of a section of _split_by_hierarchy.
SectionSource(section, s) ==
    IF section.type = "legal_basis" THEN _extract_document_title(_cut_noi_nhan_tail(s))
    ELSE IF section.type = "chuong" THEN Source("Chuong", 0, 0, Blank)
    ELSE IF section.type = "phu_luc" THEN Source("Phu luc", section.num, 0, Blank)
    ELSE NoSource

SectionSources(secs, s) == [i \in 1..Len(secs) |-> SectionSource(secs[i], s)]

\* The 'source' entries of the sections of _split_with_llm: those of the
\* rule-based sections when it falls back on them; else the 'source' of the
\* entries, which an answer is taken not to have, and which is "Điều n", as
\* the section type gives it, in an entry of _split_content_fallback.
LLMSectionSources(s, outcome) ==
    LET entries == split_content_intelligently(s, outcome)
    IN  IF \E i \in 1..Len(entries) :
               entries[i].block_type \in {"article", "khoan"} /\ ~IsString(entries[i].content)
        THEN SectionSources(_split_by_hierarchy(s), s)
        ELSE [i \in 1..Len(entries) |-> NoSource]

\* The source _create_block_metadata gives a section.
_create_block_metadata(section, explicit_source) ==
    IF explicit_source # NoSource THEN explicit_source
    ELSE IF section.type = "legal_basis" THEN Source("Can cu", 0, 0, Blank)
    ELSE IF section.type = "quyet_dinh" THEN Source("Quyet dinh", 0, 0, Blank)
    ELSE IF section.type = "article" THEN Source("Dieu", section.num, 0, Blank)
    ELSE IF section.type = "khoan" THEN Source("Dieu -> Khoan", section.num, section.khoan, Blank)
    ELSE IF section.type = "phu_luc" THEN Source("Phu luc", 0, 0, Blank)
    ELSE NoSource

\* _generate_category_rule_based on a content of lines: of the lines taken,
\* only 'Theo đề nghị của Trưởng phòng Đào tạo,' has a keyword of the table,
\* 'phòng đào tạo' of academic_affairs.
CategoryOfLines(content) ==
    IF \E i \in 1..Len(content) : content[i].k = "theo" THEN "academic_affairs"
    ELSE "training_and_regulations"

\* _generate_category_with_llm_service: the category the call answers, the
\* default one when it raises.
_generate_category_with_llm_service(outcome) ==
    IF outcome.category = "" THEN "training_and_regulations" ELSE outcome.category

\* The loop of split_document over the sections: the source and the category
\* of the blocks.
RECURSIVE MetaLoop(_, _, _)
MetaLoop(secs, srcs, outcome) ==
    IF secs = <<>> THEN <<>>
    ELSE (IF Strip(Head(secs).content) = <<>> THEN <<>>
          ELSE <<[source   |-> _create_block_metadata(Head(secs), Head(srcs)),
                  category |-> IF outcome.enabled
                               THEN _generate_category_with_llm_service(outcome)
                               ELSE CategoryOfLines(Head(secs).content)]>>)
         \o MetaLoop(Tail(secs), Tail(srcs), outcome)

\* None, and a value that is not None.
None == [none |-> TRUE, value |-> <<>>]

Some(v) == [none |-> FALSE, value |-> v]

\* No keyword generator has been constructed.
KeywordIdle ==
    /\ use_llm = FALSE
    /\ llm_service = "None"
    /\ cached_keyword = None
    /\ _cached_title = None
    /\ document_title = <<>>
    /\ keyword = <<>>
    /\ called = "no"

\* Nothing is being serialized.
MarkdownIdle ==
    /\ md_blocks = <<>>
    /\ markdown = <<>>

\* The database is not used: the table is empty.
StorageIdle ==
    /\ now = 0
    /\ metadata_blocks = <<>>
    /\ saved_blocks = <<>>

\* find_quyet_dinh_span has not been called.
SpanIdle == span = <<>>

SharedIdle ==
    /\ documents = <<>>
    /\ _llm_service_instance = None
    /\ splitters = <<>>
    /\ returned = <<>>
    /\ runtime_keywords = {}
    /\ DEPARTMENT_KEYWORDS = <<>>
    /\ DEFAULT_DEPARTMENT = ""

DateIdle ==
    /\ date_text = <<>>
    /\ date_str = <<>>

ChunkIdle ==
    /\ chunk = <<>>
    /\ chunk_result = <<>>

\* No classification is under way.
ClassifierIdle ==
    /\ classify_input = <<>>
    /\ category = ""

----------------------------------------------------------------------------
(* Input texts *)

MaxLen == 4

Seqs(A, n) == UNION {[1..m -> A] : m \in 0..n}

\* The lines of a decision's preamble and footer.
PreambleLines ==
    {L("plain"), Blank, L("cancu"), L("qd"), L("qdtitle"),
     Dieu(1, {}), BoldDieu(1, {}), L("noinhan"), L("noinhan_ascii")}

\* The lines of a regulation's articles.
ArticleLines ==
    {Dieu(1, {"va", "scope", "subject"}), Dieu(1, {"va", "scope"}),
     Dieu(2, {"va"}), Dieu(2, {"va", "subject"}), Dieu(2, {}),
     Num(1), Num(2), L("plain"), Blank, Chuong}

\* The lines of a regulation's end: last articles, appendixes, footer.
TailLines ==
    {Dieu(1, {}), Dieu(2, {}), Dieu(3, {"va"}), Num(1), L("plain"), Blank, Chuong,
     PhuLuc(1), PhuLucPlain(1), L("noinhan")}

\* The sample document of the specification's end-to-end scenario.
SampleText ==
    <<L("so"), L("date"), L("cancu"), L("theo"), L("qd"),
      Dieu(1, {}), Dieu(2, {"va", "scope", "subject"}), Num(1), Num(2),
      L("noinhan"), L("plain")>>

Inputs ==
    Seqs(PreambleLines, MaxLen) \cup Seqs(ArticleLines, MaxLen)
        \cup Seqs(TailLines, MaxLen) \cup {SampleText}

----------------------------------------------------------------------------
(* The operations, each applied to an input text *)

Init ==
    /\ text \in Inputs
    /\ pc = "start"
    /\ sections = <<>>
    /\ infos = <<>>
    /\ meta = <<>>
    /\ blocks = <<>>
    /\ can_cu = <<>>
    /\ quyet_dinh = <<>>
    /\ llm = LLMOff
    /\ ClassifierIdle
    /\ KeywordIdle
    /\ MarkdownIdle
    /\ StorageIdle
    /\ SpanIdle
    /\ SharedIdle
    /\ DateIdle
    /\ ChunkIdle

\* split_document, lines 130-131: an empty or blank text gives no block
ReturnEmpty ==
    /\ pc = "start"
    /\ Strip(text) = <<>>
    /\ pc' = "done"
    /\ blocks' = <<>>
    /\ meta' = <<>>
    /\ UNCHANGED <<text, llm, sections, infos, can_cu, quyet_dinh>>
    /\ UNCHANGED exceptSplit

\* split_document, line 147 (rule-based path)
SplitByHierarchy ==
    /\ pc = "start"
    /\ Strip(text) # <<>>
    /\ ~llm.enabled
    /\ sections' = _split_by_hierarchy(text)
    /\ infos' = SectionSources(_split_by_hierarchy(text), text)
    /\ pc' = "sections"
    /\ UNCHANGED <<text, llm, blocks, meta, can_cu, quyet_dinh>>
    /\ UNCHANGED exceptSplit

\* split_document, lines 149-184
BuildBlocks ==
    /\ pc = "sections"
    /\ \A i \in 1..Len(sections) : IsString(sections[i].content)
    /\ blocks' = BlockLoop(sections)
    /\ meta' = MetaLoop(sections, infos, llm)
    /\ pc' = "done"
    /\ UNCHANGED <<text, llm, sections, infos, can_cu, quyet_dinh>>
    /\ UNCHANGED exceptSplit

CreateCanCuBlocks ==
    /\ pc = "start"
    /\ can_cu' = create_can_cu_blocks(text)
    /\ pc' = "can_cu"
    /\ UNCHANGED <<text, llm, sections, blocks, infos, meta, quyet_dinh>>
    /\ UNCHANGED exceptSplit

ExtractQuyetDinhBlock ==
    /\ pc = "start"
    /\ quyet_dinh' = extract_quyet_dinh_block(text)
    /\ pc' = "quyet_dinh"
    /\ UNCHANGED <<text, llm, sections, blocks, infos, meta, can_cu>>
    /\ UNCHANGED exceptSplit

Next ==
    \/ ReturnEmpty
    \/ SplitByHierarchy
    \/ BuildBlocks
    \/ CreateCanCuBlocks
    \/ ExtractQuyetDinhBlock

Spec == Init /\ [][Next]_vars

----------------------------------------------------------------------------
(* split_document with the LLM capability *)

MaxLLMLen == 3

MaxAnswerLen == 2

\* The lines of the texts split with the capability.
LLMLines ==
    {L("cancu"), L("qd"), Dieu(1, {}), BoldDieu(2, {"va"}), Num(1), Blank}

\* The entries an answer is made of: article and legal-basis entries with a
\* text, with an empty or blank text, with a content that is not a string,
\* and an entry without 'content' key.
\* The answers of the classification calls: none (the call raises), a
\* category.
CategoryAnswers == {"", "admissions"}

AnswerEntries ==
    {Entry(TRUE, "article", <<Dieu(1, {}), L("plain")>>),
     Entry(TRUE, "article", <<>>),
     Entry(TRUE, "article", NullContent),
     Entry(TRUE, "legal_basis", <<L("cancu")>>),
     Entry(TRUE, "legal_basis", <<Blank, Blank>>),
     Entry(TRUE, "legal_basis", NullContent),
     Entry(FALSE, "article", <<>>)}

LLMOutcomes ==
    {LLMOff}
        \cup {LLMOutcome(TRUE, FALSE, <<>>, c) : c \in CategoryAnswers}
        \cup {LLMOutcome(TRUE, TRUE, a, c) :
                  a \in Seqs(AnswerEntries, MaxAnswerLen), c \in CategoryAnswers}

InitLLM ==
    /\ text \in Seqs(LLMLines, MaxLLMLen) \cup {SampleText}
    /\ pc = "start"
    /\ sections = <<>>
    /\ infos = <<>>
    /\ meta = <<>>
    /\ blocks = <<>>
    /\ can_cu = <<>>
    /\ quyet_dinh = <<>>
    /\ llm \in LLMOutcomes
    /\ ClassifierIdle
    /\ KeywordIdle
    /\ MarkdownIdle
    /\ StorageIdle
    /\ SpanIdle
    /\ SharedIdle
    /\ DateIdle
    /\ ChunkIdle

\* split_document, line 144 (LLM path)
SplitWithLLM ==
    /\ pc = "start"
    /\ Strip(text) # <<>>
    /\ llm.enabled
    /\ sections' = _split_with_llm(text, llm)
    /\ infos' = LLMSectionSources(text, llm)
    /\ pc' = "sections"
    /\ UNCHANGED <<text, llm, blocks, meta, can_cu, quyet_dinh>>
    /\ UNCHANGED exceptSplit

\* split_document, line 150: section_content.strip() raises when the content
\* of a section is not a string; nothing is returned.
BuildBlocksRaises ==
    /\ pc = "sections"
    /\ \E i \in 1..Len(sections) : ~IsString(sections[i].content)
    /\ pc' = "raised"
    /\ UNCHANGED <<text, llm, sections, blocks, infos, meta, can_cu, quyet_dinh>>
    /\ UNCHANGED exceptSplit

NextLLM ==
    \/ ReturnEmpty
    \/ SplitByHierarchy
    \/ SplitWithLLM
    \/ BuildBlocks
    \/ BuildBlocksRaises

SpecLLM == InitLLM /\ [][NextLLM]_vars

----------------------------------------------------------------------------
(* category_classifier.py: the rule-based category classifier *)

\* A string is a sequence of characters; a Vietnamese letter is written as
\* its Telex keystrokes (aa aw ee oo ow uw dd for the letter shape, then
\* s f r x j for the tone).

KEYWORD_MAPPING ==
    <<
     [category |-> "admissions", keywords |-> <<
         <<"t", "u", "y", "eer", "n", " ", "s", "i", "n", "h">>,
         <<"x", "es", "t", " ", "t", "u", "y", "eer", "n">>,
         <<"d", "uwj", " ", "t", "u", "y", "eer", "n">>
      >>],
     [category |-> "postgraduate_training", keywords |-> <<
         <<"t", "h", "aj", "c", " ", "s", "ix">>,
         <<"t", "i", "ees", "n", " ", "s", "ix">>,
         <<"s", "a", "u", " ", "dd", "aj", "i", " ", "h", "oj", "c">>,
         <<"t", "h", "aj", "c", " ", "s", "yx">>,
         <<"t", "i", "ees", "n", " ", "s", "yx">>
      >>],
     [category |-> "academic_affairs", keywords |-> <<
         <<"dd", "af", "o", " ", "t", "aj", "o">>,
         <<"t", "is", "n", " ", "c", "h", "ir">>,
         <<"c", "t", "dd", "t">>,
         <<"g", "d", "t", "c">>,
         <<"g", "i", "ar", "n", "g", " ", "d", "aj", "y">>,
         <<"h", "oj", "c", " ", "t", "aaj", "p">>,
         <<"g", "i", "as", "o", " ", "t", "r", "if", "n", "h">>,
         <<"c", "h", "u", "aar", "n", " ", "dd", "aaf", "u", " ", "r", "a">>,
         <<"t", "i", "n", " ", "h", "oj", "c">>,
         <<"n", "g", "o", "aj", "i", " ", "n", "g", "uwx">>,
         <<"c", "h", "uw", "ow", "n", "g", " ", "t", "r", "if", "n", "h">>,
         <<"k", "h", "u", "n", "g", " ", "c", "h", "uw", "ow", "n", "g", " ", "t", "r", "if", "n", "h">>
      >>],
     [category |-> "internship", keywords |-> <<
         <<"t", "h", "uwj", "c", " ", "t", "aaj", "p">>,
         <<"t", "t", "t", "n">>,
         <<"dd", "oof", " ", "as", "n">>,
         <<"k", "h", "os", "a", " ", "l", "u", "aaj", "n">>,
         <<"k", "h", "o", "as", " ", "l", "u", "aaj", "n">>
      >>],
     [category |-> "distance_learning", keywords |-> <<
         <<"dd", "af", "o", " ", "t", "aj", "o", " ", "t", "uwf", " ", "x", "a">>,
         <<"e", "-", "l", "e", "a", "r", "n", "i", "n", "g">>,
         <<"t", "r", "uwj", "c", " ", "t", "u", "y", "ees", "n">>,
         <<"o", "n", "l", "i", "n", "e">>
      >>],
     [category |-> "finance_and_tuition", keywords |-> <<
         <<"h", "oj", "c", " ", "p", "h", "is">>,
         <<"t", "af", "i", " ", "c", "h", "is", "n", "h">>,
         <<"m", "i", "eex", "n">>,
         <<"g", "i", "ar", "m">>,
         <<"p", "h", "is">>
      >>],
     [category |-> "examination", keywords |-> <<
         <<"t", "h", "i", " ", "c", "uwr">>,
         <<"k", "i", "eer", "m", " ", "t", "r", "a">>,
         <<"dd", "as", "n", "h", " ", "g", "i", "as">>,
         <<"k", "yf", " ", "t", "h", "i">>,
         <<"k", "ees", "t", " ", "q", "u", "ar", " ", "h", "oj", "c", " ", "t", "aaj", "p">>
      >>],
     [category |-> "human_resources", keywords |-> <<
         <<"c", "as", "n", " ", "b", "ooj">>,
         <<"g", "i", "ar", "n", "g", " ", "v", "i", "ee", "n">>,
         <<"c", "b", "v", "c">>,
         <<"n", "h", "aa", "n", " ", "s", "uwj">>,
         <<"t", "u", "y", "eer", "n", " ", "d", "uj", "n", "g">>
      >>],
     [category |-> "student_affairs", keywords |-> <<
         <<"c", "oo", "n", "g", " ", "t", "as", "c", " ", "s", "i", "n", "h", " ", "v", "i", "ee", "n">>,
         <<"n", "g", "o", "aj", "i", " ", "k", "h", "os", "a">>,
         <<"h", "o", "aj", "t", " ", "dd", "ooj", "n", "g">>,
         <<"h", "oj", "c", " ", "b", "oor", "n", "g">>,
         <<"k", "h", "e", "n", " ", "t", "h", "uw", "owr", "n", "g">>,
         <<"k", "yr", " ", "l", "u", "aaj", "t">>
      >>],
     [category |-> "training_and_regulations", keywords |-> <<
         <<"q", "u", "y", " ", "c", "h", "ees">>,
         <<"q", "u", "y", " ", "dd", "ij", "n", "h">>,
         <<"n", "ooj", "i", " ", "q", "u", "y">>,
         <<"q", "u", "y", " ", "t", "aws", "c">>
      >>]
    >>

\* The table of classify_by_content; _generate_category_rule_based of the
\* splitter holds the same table.
keyword_mapping ==
    <<
     [category |-> "postgraduate_training", keywords |-> <<
         <<"t", "i", "ees", "n", " ", "s", "ix">>,
         <<"t", "h", "aj", "c", " ", "s", "ix">>,
         <<"s", "a", "u", " ", "dd", "aj", "i", " ", "h", "oj", "c">>,
         <<"t", "s">>,
         <<"t", "h", "s">>
      >>],
     [category |-> "admissions", keywords |-> <<
         <<"t", "u", "y", "eer", "n", " ", "s", "i", "n", "h">>,
         <<"x", "es", "t", " ", "t", "u", "y", "eer", "n">>,
         <<"dd", "i", "eef", "u", " ", "k", "i", "eej", "n", " ", "d", "uwj", " ", "t", "u", "y", "eer", "n">>
      >>],
     [category |-> "finance_and_tuition", keywords |-> <<
         <<"h", "oj", "c", " ", "p", "h", "is">>,
         <<"m", "i", "eex", "n", " ", "g", "i", "ar", "m">>,
         <<"t", "h", "u">>,
         <<"c", "h", "i">>,
         <<"q", "u", "y", " ", "dd", "ij", "n", "h", " ", "p", "h", "is">>
      >>],
     [category |-> "examination", keywords |-> <<
         <<"k", "yf", " ", "t", "h", "i">>,
         <<"t", "h", "i", " ", "c", "uwr">>,
         <<"dd", "as", "n", "h", " ", "g", "i", "as">>,
         <<"k", "i", "eer", "m", " ", "t", "r", "a">>
      >>],
     [category |-> "internship", keywords |-> <<
         <<"t", "h", "uwj", "c", " ", "t", "aaj", "p">>,
         <<"t", "t", "t", "n">>,
         <<"d", "o", "a", "n", "h", " ", "n", "g", "h", "i", "eej", "p">>,
         <<"i", "n", "t", "e", "r", "n", "s", "h", "i", "p">>
      >>],
     [category |-> "distance_learning", keywords |-> <<
         <<"dd", "af", "o", " ", "t", "aj", "o", " ", "t", "uwf", " ", "x", "a">>,
         <<"e", "-", "l", "e", "a", "r", "n", "i", "n", "g">>,
         <<"o", "n", "l", "i", "n", "e">>,
         <<"q", "u", "a", " ", "m", "aj", "n", "g">>
      >>],
     [category |-> "student_affairs", keywords |-> <<
         <<"c", "oo", "n", "g", " ", "t", "as", "c", " ", "s", "i", "n", "h", " ", "v", "i", "ee", "n">>,
         <<"k", "h", "e", "n", " ", "t", "h", "uw", "owr", "n", "g">>,
         <<"k", "yr", " ", "l", "u", "aaj", "t">>,
         <<"h", "oj", "c", " ", "b", "oor", "n", "g">>,
         <<"r", "ef", "n", " ", "l", "u", "y", "eej", "n">>
      >>],
     [category |-> "human_resources", keywords |-> <<
         <<"t", "oor", " ", "c", "h", "uws", "c", " ", "c", "as", "n", " ", "b", "ooj">>,
         <<"n", "h", "aa", "n", " ", "s", "uwj">>,
         <<"c", "b", "v", "c">>
      >>],
     [category |-> "academic_affairs", keywords |-> <<
         <<"p", "h", "of", "n", "g", " ", "dd", "af", "o", " ", "t", "aj", "o">>,
         <<"c", "h", "uw", "ow", "n", "g", " ", "t", "r", "if", "n", "h", " ", "h", "oj", "c">>,
         <<"t", "is", "n", " ", "c", "h", "ir">>,
         <<"k", "ees", " ", "h", "o", "aj", "c", "h", " ", "g", "i", "ar", "n", "g", " ", "d", "aj", "y">>,
         <<"g", "d", "t", "c">>,
         <<"t", "h", "eer", " ", "c", "h", "aas", "t">>,
         <<"q", "u", "y", " ", "c", "h", "ees">>
      >>]
    >>

DEFAULT_CATEGORY == "training_and_regulations"

SUPPORTED_EXTENSIONS ==
    <<<<".", "p", "d", "f">>,
      <<".", "d", "o", "c", "x">>,
      <<".", "d", "o", "c">>,
      <<".", "x", "l", "s", "x">>,
      <<".", "x", "l", "s">>,
      <<".", "t", "x", "t">>,
      <<".", "m", "d">>>>

\* The upper-case letters of the inputs, with their lower-case letters.
UpperLower ==
    {<<"AJ", "aj">>, <<"C", "c">>, <<"D", "d">>, <<"F", "f">>, <<"H", "h">>,
    <<"IX", "ix">>, <<"P", "p">>, <<"S", "s">>, <<"T", "t">>}

\* str.lower()
lower(str) ==
    [i \in 1..Len(str) |->
        IF \E p \in UpperLower : p[1] = str[i]
        THEN (CHOOSE p \in UpperLower : p[1] = str[i])[2]
        ELSE str[i]]

\* keyword in str
IsSubstring(sub, str) ==
    \E i \in 1..(Len(str) - Len(sub) + 1) :
        SubSeq(str, i, i + Len(sub) - 1) = sub

\* str.endswith(suffix)
EndsWith(str, suffix) ==
    /\ Len(suffix) <= Len(str)
    /\ SubSeq(str, Len(str) - Len(suffix) + 1, Len(str)) = suffix

\* str.strip() on characters
RECURSIVE StripSpaces(_)
StripSpaces(str) ==
    IF str # <<>> /\ Head(str) = " " THEN StripSpaces(Tail(str))
    ELSE IF str # <<>> /\ str[Len(str)] = " "
         THEN StripSpaces(SubSeq(str, 1, Len(str) - 1))
    ELSE str

\* os.path.basename: what follows the last "/"
basename(filename) ==
    LET m == {i \in 1..Len(filename) : filename[i] = "/"}
    IN  IF m = {} THEN filename
        ELSE SubSeq(filename, (CHOOSE i \in m : \A j \in m : j <= i) + 1, Len(filename))

normalize_filename(filename) ==
    LET base == basename(filename)
        ext  == Search({e \in 1..Len(SUPPORTED_EXTENSIONS) :
                           EndsWith(lower(base), lower(SUPPORTED_EXTENSIONS[e]))})
        name_without_ext ==
            IF ext = 0 THEN base
            ELSE SubSeq(base, 1, Len(base) - Len(SUPPORTED_EXTENSIONS[ext]))
    IN  StripSpaces(lower(name_without_ext))

\* The loops with the last matching entry winning.
RECURSIVE CategoryLoopLastMatch(_, _, _)
CategoryLoopLastMatch(table, i, str) ==
    LET rest == IF i > Len(table) THEN "" ELSE CategoryLoopLastMatch(table, i + 1, str)
    IN  IF i > Len(table) THEN "training_and_regulations"
        ELSE IF rest # "training_and_regulations" THEN rest
        ELSE IF \E j \in 1..Len(table[i].keywords) : IsSubstring(table[i].keywords[j], str)
             THEN table[i].category
        ELSE rest

\* The loops "for category, keywords in table: for keyword in keywords" from
\* the i-th entry on.
RECURSIVE CategoryLoop(_, _, _)
CategoryLoop(table, i, str) ==
    IF i > Len(table) THEN DEFAULT_CATEGORY
    ELSE IF \E j \in 1..Len(table[i].keywords) : IsSubstring(table[i].keywords[j], str)
         THEN table[i].category
    ELSE CategoryLoop(table, i + 1, str)

classify_by_filename(filename) ==
    IF filename = <<>> THEN DEFAULT_CATEGORY
    ELSE CategoryLoop(KEYWORD_MAPPING, 1, normalize_filename(filename))

classify_by_content(content) ==
    IF content = <<>> THEN DEFAULT_CATEGORY
    ELSE CategoryLoop(keyword_mapping, 1, lower(content))

_generate_category_rule_based(content) == CategoryLoop(keyword_mapping, 1, lower(content))

MaxTokens == 3

\* The pieces the classified file names and contents are made of.
ClassifyTokens ==
    {<<"T", "u", "y", "eer", "n", " ", "s", "i", "n", "h">>,
     <<"T", "H", "AJ", "C", " ", "S", "IX">>,
     <<"dd", "af", "o", " ", "t", "aj", "o", " ", "t", "uwf", " ", "x", "a">>,
     <<"H", "oj", "c", " ", "p", "h", "is">>,
     <<"q", "u", "y", " ", "c", "h", "ees">>,
     <<"c", "t", "s">>,
     <<"a", "b", "c">>,
     <<".", "P", "D", "F">>,
     <<"/">>,
     <<" ">>}

RECURSIVE Flatten(_)
Flatten(ss) == IF ss = <<>> THEN <<>> ELSE Head(ss) \o Flatten(Tail(ss))

ClassifyInputs == {Flatten(ts) : ts \in Seqs(ClassifyTokens, MaxTokens)}

SplitterIdle ==
    /\ text = <<>>
    /\ sections = <<>>
    /\ infos = <<>>
    /\ meta = <<>>
    /\ blocks = <<>>
    /\ can_cu = <<>>
    /\ quyet_dinh = <<>>
    /\ llm = LLMOff

InitClassify ==
    /\ pc = "start"
    /\ classify_input \in ClassifyInputs
    /\ category = ""
    /\ SplitterIdle
    /\ KeywordIdle
    /\ MarkdownIdle
    /\ StorageIdle
    /\ SpanIdle
    /\ SharedIdle
    /\ DateIdle
    /\ ChunkIdle

ClassifyByFilename ==
    /\ pc = "start"
    /\ category' = classify_by_filename(classify_input)
    /\ pc' = "by_filename"
    /\ UNCHANGED classify_input
    /\ UNCHANGED exceptClassify

ClassifyByContent ==
    /\ pc = "start"
    /\ category' = classify_by_content(classify_input)
    /\ pc' = "by_content"
    /\ UNCHANGED classify_input
    /\ UNCHANGED exceptClassify

GenerateCategoryRuleBased ==
    /\ pc = "start"
    /\ category' = _generate_category_rule_based(classify_input)
    /\ pc' = "rule_based"
    /\ UNCHANGED classify_input
    /\ UNCHANGED exceptClassify

NextClassify ==
    \/ ClassifyByFilename
    \/ ClassifyByContent
    \/ GenerateCategoryRuleBased

SpecClassify == InitClassify /\ [][NextClassify]_vars

----------------------------------------------------------------------------
(* keyword_generator.py: the keyword of a document title *)

\* str.split(): the words of str, words being the runs of characters other
\* than white space; word is the word being read.
RECURSIVE SplitLoop(_, _)
SplitLoop(str, word) ==
    IF str = <<>> THEN (IF word = <<>> THEN <<>> ELSE <<word>>)
    ELSE IF Head(str) = " "
         THEN (IF word = <<>> THEN <<>> ELSE <<word>>) \o SplitLoop(Tail(str), <<>>)
    ELSE SplitLoop(Tail(str), Append(word, Head(str)))

split(str) == SplitLoop(str, <<>>)

\* ' '.join(words)
RECURSIVE join(_)
join(words) ==
    IF words = <<>> THEN <<>>
    ELSE IF Len(words) = 1 THEN words[1]
    ELSE words[1] \o <<" ">> \o join(Tail(words))

\* words[:n]
FirstWords(words, n) == SubSeq(words, 1, IF Len(words) < n THEN Len(words) ELSE n)

_fallback_keyword(title) == join(FirstWords(split(title), 5))

\* llm_service.is_available() at construction: there is no service, or the
\* service reports that it is not, or that it is, available.
LLMServices == {"None", "unavailable", "available"}

llm_enabled == llm_service = "available"

\* What a call of llm_service.generate_keyword_from_title does: it raises
\* (the service given may not even have the method), or returns an answer.
Raises == [raises |-> TRUE, answer |-> <<>>]

Answers(answer) == [raises |-> FALSE, answer |-> answer]

\* The answers of the service: none (what _extract_response_text makes of a
\* response without text), white space, a keyword.
LLMAnswers == {<<>>, <<" ">>, <<"k">>, <<"k", " ", "w">>}

LLMCalls == {Raises} \cup {Answers(a) : a \in LLMAnswers}

MaxTitleTokens == 3

\* The pieces the titles are made of.
TitleTokens == {<<"a">>, <<" ">>, <<"b", " ", " ", "c", " ", "d", " ", "e">>}

Titles == {Flatten(ts) : ts \in Seqs(TitleTokens, MaxTitleTokens)}

\* KeywordGenerator(llm_service, use_llm)
InitKeyword ==
    /\ pc = "constructed"
    /\ use_llm \in BOOLEAN
    /\ llm_service \in LLMServices
    /\ cached_keyword = None
    /\ _cached_title = None
    /\ document_title = <<>>
    /\ keyword = <<>>
    /\ called = "no"
    /\ SplitterIdle
    /\ ClassifierIdle
    /\ MarkdownIdle
    /\ StorageIdle
    /\ SpanIdle
    /\ SharedIdle
    /\ DateIdle
    /\ ChunkIdle

\* generate_keyword returning the cached keyword whatever the title is.
GenerateKeywordAnyTitle(title, call) ==
    LET asked  == use_llm /\ llm_enabled /\ llm_service # "None" /\ title # <<>>
        result == IF asked /\ ~call.raises THEN call.answer ELSE _fallback_keyword(title)
    IN  /\ pc \in {"constructed", "returned"}
        /\ document_title' = title
        /\ pc' = "returned"
        /\ IF cached_keyword # None
           THEN /\ keyword' = cached_keyword.value
                /\ called' = "cached"
                /\ UNCHANGED <<cached_keyword, _cached_title>>
           ELSE /\ keyword' = result
                /\ called' = IF ~asked THEN "no"
                              ELSE IF call.raises THEN "raised" ELSE "answered"
                /\ cached_keyword' = Some(result)
                /\ _cached_title' = Some(title)
        /\ UNCHANGED <<use_llm, llm_service>>
        /\ UNCHANGED exceptKeyword

\* generate_keyword(title), the call of the service, if it is made, doing
\* what call says.
GenerateKeyword(title, call) ==
    LET cached == IF cached_keyword # None /\ _cached_title = None
                  THEN None ELSE cached_keyword
        hit    == cached # None /\ _cached_title # None /\ _cached_title.value = title
        asked  == use_llm /\ llm_enabled /\ llm_service # "None" /\ title # <<>>
        result == IF asked /\ ~call.raises THEN call.answer ELSE _fallback_keyword(title)
    IN  /\ pc \in {"constructed", "returned"}
        /\ document_title' = title
        /\ pc' = "returned"
        /\ IF hit
           THEN /\ keyword' = cached.value
                /\ called' = "cached"
                /\ cached_keyword' = cached
                /\ UNCHANGED _cached_title
           ELSE /\ keyword' = result
                /\ called' = IF ~asked THEN "no"
                              ELSE IF call.raises THEN "raised" ELSE "answered"
                /\ cached_keyword' = Some(result)
                /\ _cached_title' = Some(title)
        /\ UNCHANGED <<use_llm, llm_service>>
        /\ UNCHANGED exceptKeyword

\* reset_cache()
ResetCache ==
    /\ pc = "returned"
    /\ cached_keyword # None
    /\ cached_keyword' = None
    /\ _cached_title' = None
    /\ UNCHANGED <<pc, use_llm, llm_service, document_title, keyword, called>>
    /\ UNCHANGED exceptKeyword

\* The outcomes of the call of the service generate_keyword(title) makes;
\* when it makes none, the outcome is immaterial and one is enough.
CallsOf(title) ==
    IF use_llm /\ llm_enabled /\ title # <<>> /\ _cached_title # Some(title)
    THEN LLMCalls ELSE {Raises}

NextKeyword ==
    \/ \E title \in Titles : \E call \in CallsOf(title) : GenerateKeyword(title, call)
    \/ ResetCache

SpecKeyword == InitKeyword /\ [][NextKeyword]_vars

\* generate_keyword(title) when the call of the service does not return:
\* llm_service.generate_keyword_from_title is called inside try/except with
\* no timeout, and call_gemini passes none to generate_content, so
\* generate_keyword waits in the call.
GenerateKeywordHangs(title) ==
    /\ pc \in {"constructed", "returned"}
    /\ use_llm /\ llm_enabled /\ title # <<>>
    /\ ~(cached_keyword # None /\ _cached_title = Some(title))
    /\ document_title' = title
    /\ pc' = "calling"
    /\ called' = "calling"
    /\ UNCHANGED <<use_llm, llm_service, cached_keyword, _cached_title, keyword>>
    /\ UNCHANGED exceptKeyword

\* The calls of a generator whose service may also fail to return.
NextKeywordLive ==
    \/ NextKeyword
    \/ \E title \in Titles : GenerateKeywordHangs(title)

\* Every step the generator can take is taken: only the service can keep a
\* call from returning.
SpecKeywordLive == InitKeyword /\ [][NextKeywordLive]_vars /\ WF_vars(NextKeywordLive)

----------------------------------------------------------------------------
(* to_markdown and generate_markdown_export: the Markdown serializers *)

\* A Markdown text is the sequence of its lines; a line has a kind ("text"
\* for any line that is not one of the others) and, for the line of the
\* source field and for a title line, a value.
MdLine(kind, value) == [k |-> kind, v |-> value]

MetadataHeading == MdLine("## Metadata", "")

NoiDungHeading == MdLine("## Noi dung", "")

Separator == MdLine("---", "")

EmptyLine == MdLine("", "")

TextLine == MdLine("text", "")

Field(name, value) == MdLine(name, value)

\* str.strip() of a text of lines none of which has white space only, but
\* the empty ones.
RECURSIVE StripLines(_)
StripLines(lines) ==
    IF lines # <<>> /\ Head(lines) = EmptyLine THEN StripLines(Tail(lines))
    ELSE IF lines # <<>> /\ lines[Len(lines)] = EmptyLine
         THEN StripLines(SubSeq(lines, 1, Len(lines) - 1))
    ELSE lines

\* The lines of a string: those of the empty string are one empty line.
LinesOf(content) == IF content = <<>> THEN <<EmptyLine>> ELSE content

\* '\n'.join(markdown_lines), the i-th element on
RECURSIVE JoinLines(_)
JoinLines(parts) == IF parts = <<>> THEN <<>> ELSE Head(parts) \o JoinLines(Tail(parts))

\* The lines for the i-th block, with the separator before the first block
\* too.
ToMarkdownBlockSeparatorFirst(bs, i) ==
    <<EmptyLine, Separator, EmptyLine>>
    \o <<MetadataHeading, Field("doc_id", ""), Field("data_type", ""), Field("category", ""),
         Field("date", ""), Field("source", bs[i].source)>>
    \o (IF bs[i].confidence > 0 THEN <<Field("confidence", "")>> ELSE <<>>)
    \o <<EmptyLine, NoiDungHeading, EmptyLine>>
    \o LinesOf(bs[i].content)

\* The lines to_markdown appends for the i-th block.
ToMarkdownBlock(bs, i) ==
    (IF i > 1 THEN <<EmptyLine, Separator, EmptyLine>> ELSE <<>>)
    \o <<MetadataHeading, Field("doc_id", ""), Field("data_type", ""), Field("category", ""),
         Field("date", ""), Field("source", bs[i].source)>>
    \o (IF bs[i].confidence > 0 THEN <<Field("confidence", "")>> ELSE <<>>)
    \o <<EmptyLine, NoiDungHeading, EmptyLine>>
    \o LinesOf(bs[i].content)

to_markdown(bs) == JoinLines([i \in 1..Len(bs) |-> ToMarkdownBlock(bs, i)])

\* The header of build_can_cu_markdown and of
\* build_quyet_dinh_markdown_with_content, which ends with an empty line.
Header(source) ==
    <<MetadataHeading, Field("doc_id", ""), Field("department", ""), Field("type_data", ""),
      Field("category", ""), Field("date", ""), Field("source", source), EmptyLine>>

\* content_body.strip() + ("\n" if not content_body.endswith("\n") else ""),
\* as the text before the last line of the string (which goes on after it).
StripWithNewline(content_body) ==
    LET stripped == StripLines(content_body)
    IN  IF content_body # <<>> /\ content_body[Len(content_body)] = EmptyLine
             /\ Len(content_body) > 1
        THEN <<stripped, <<>>>>
        ELSE <<stripped, <<EmptyLine>>>>

\* The lines of a string made of the lines before, then a text whose first
\* line goes on the last of them (an empty one), then the lines after.
Glue(before, lines, after) ==
    before \o (IF lines = <<>> THEN <<EmptyLine>> ELSE lines) \o after

\* The sentence written before the content of a block: its words before the
\* keyword clause are the kind of the line, the clause is its value.
CanCuSentence == "Cac can cu phap ly de ban hanh quy dinh"

QuyetDinhSentence == "QUYET DINH ban hanh cac quy dinh"

\* f" liên quan đến {keyword}": with an empty keyword the words stay and
\* nothing follows them.
KeywordClause(kw) == IF kw = <<>> THEN " lien quan den " ELSE " lien quan den {keyword}"

build_can_cu_markdown(kw, content_body) ==
    LET title == MdLine(CanCuSentence,
                        IF kw # <<>> /\ StripSpaces(kw) # <<>> THEN KeywordClause(kw) ELSE "")
        body  == <<NoiDungHeading, EmptyLine, title, EmptyLine>>
    IN  IF content_body # <<>>
        THEN Glue(Header("Can cu") \o body, StripWithNewline(content_body)[1],
                  StripWithNewline(content_body)[2])
        ELSE Header("Can cu") \o body \o <<EmptyLine>>

build_quyet_dinh_markdown_with_content(kw, content_body) ==
    Glue(Header("Quyet dinh") \o <<NoiDungHeading, EmptyLine,
                                  MdLine(QuyetDinhSentence, KeywordClause(kw)), EmptyLine>>,
         StripWithNewline(content_body)[1], StripWithNewline(content_body)[2])

\* The lines generate_markdown_export appends for the i-th block.
ExportBlock(bs, i, kw) ==
    (IF i > 1 THEN <<EmptyLine, Separator, EmptyLine>> ELSE <<>>)
    \o (IF bs[i].source = "Can cu" THEN build_can_cu_markdown(kw, bs[i].content)
        ELSE IF bs[i].source = "Quyet dinh"
             THEN build_quyet_dinh_markdown_with_content(kw, bs[i].content)
        ELSE <<MetadataHeading, Field("doc_id", ""), Field("department", ""),
               Field("type_data", ""), Field("category", ""), Field("date", ""),
               Field("source", bs[i].source), EmptyLine, NoiDungHeading, EmptyLine>>
             \o LinesOf(bs[i].content))

generate_markdown_export(bs, kw) ==
    IF bs = <<>> THEN <<>>
    ELSE JoinLines([i \in 1..Len(bs) |-> ExportBlock(bs, i, kw)])

MaxBlocks == 2

\* The contents of the blocks given to the serializers: a text of lines.
BlockContents ==
    {<<>>, <<TextLine>>, <<TextLine, EmptyLine, TextLine>>, <<EmptyLine, TextLine, EmptyLine>>,
     <<TextLine, Separator, TextLine>>, <<MetadataHeading, TextLine>>,
     <<TextLine, NoiDungHeading>>}

BlockSources == {"Can cu", "Quyet dinh", "Dieu 1"}

MdBlocks == [source : BlockSources, content : BlockContents, confidence : {0, 1}]

\* The keyword generate_markdown_export draws from the title of the document.
ExportKeywords == {<<>>, <<"k">>}

InitMarkdown ==
    /\ pc = "start"
    /\ md_blocks \in Seqs(MdBlocks, MaxBlocks)
    /\ markdown = <<>>
    /\ SplitterIdle
    /\ ClassifierIdle
    /\ KeywordIdle
    /\ StorageIdle
    /\ SpanIdle
    /\ SharedIdle
    /\ DateIdle
    /\ ChunkIdle

ToMarkdown ==
    /\ pc = "start"
    /\ markdown' = to_markdown(md_blocks)
    /\ pc' = "to_markdown"
    /\ UNCHANGED md_blocks
    /\ UNCHANGED exceptMarkdown

GenerateMarkdownExport ==
    /\ pc = "start"
    /\ \E kw \in ExportKeywords : markdown' = generate_markdown_export(md_blocks, kw)
    /\ pc' = "export"
    /\ UNCHANGED md_blocks
    /\ UNCHANGED exceptMarkdown

NextMarkdown ==
    \/ ToMarkdown
    \/ GenerateMarkdownExport

SpecMarkdown == InitMarkdown /\ [][NextMarkdown]_vars

----------------------------------------------------------------------------
(* metadata_routes.py and utils/database.py: the blocks in the database *)

\* The blocks of one document, the rows of the table and the last second of
\* the clock.
MaxStoredBlocks == 2

MaxRows == 2

MaxClock == 1

\* The values of uuid.uuid4(): a new row has one that no row has.
UUIDs == 1..MaxRows

\* The identifier of the source in the request, and the doc_id of the blocks
\* split_document returns, which is the number found in the text.
SourceIds == {"source"}

DocIds == {"429/QD"}

\* The blocks split_document returns.
StoredBlocks ==
    {[source |-> "Can cu", content |-> <<TextLine>>],
     [source |-> "Dieu 1", content |-> <<TextLine, TextLine>>]}

\* A row of the table metadata_blocks: created_at is datetime('now'), a
\* time in whole seconds.
Row(id, doc_id, block, created_at) ==
    [id |-> id, doc_id |-> doc_id, source |-> block.source, content |-> block.content,
     created_at |-> created_at]

\* DELETE FROM metadata_blocks WHERE doc_id = ?
DeleteWhereDocId(table, doc_id) == SelectSeq(table, LAMBDA r : r.doc_id # doc_id)

\* SELECT ... FROM metadata_blocks ORDER BY created_at ASC: the rows in an
\* order of ascending created_at; the order of rows of equal created_at is
\* left undefined by the database, any one may be the answer.
SelectOrderByCreatedAt(table) ==
    LET n == Len(table)
        orders == {f \in [1..n -> 1..n] :
                      /\ \A i, j \in 1..n : i # j => f[i] # f[j]
                      /\ \A i, j \in 1..n :
                             i < j => table[f[i]].created_at <= table[f[j]].created_at}
    IN  {[i \in 1..n |-> table[f[i]]] : f \in orders}

InitStorage ==
    /\ pc = "start"
    /\ StorageIdle
    /\ SpanIdle
    /\ SharedIdle
    /\ DateIdle
    /\ ChunkIdle
    /\ SplitterIdle
    /\ ClassifierIdle
    /\ KeywordIdle
    /\ MarkdownIdle

\* process_source_metadata, lines 245-287: the text is split, the rows of
\* the source are deleted and one row is inserted for each block, in the
\* order of the blocks, with a new uuid and the time of the insertion.
\* saved_blocks is the answer of the request; md_blocks and markdown, the
\* answer of an earlier request for the Markdown, are no more.
ProcessSourceMetadata ==
    /\ \E source_id \in SourceIds, doc_id \in DocIds,
          bs \in Seqs(StoredBlocks, MaxStoredBlocks) :
          LET kept == DeleteWhereDocId(metadata_blocks, source_id)
          IN  /\ Len(kept) + Len(bs) <= MaxRows
              /\ \E ids \in [1..Len(bs) -> UUIDs], times \in [1..Len(bs) -> now..MaxClock] :
                     /\ \A i, j \in 1..Len(bs) : i # j => ids[i] # ids[j]
                     /\ \A i \in 1..Len(bs), j \in 1..Len(kept) : ids[i] # kept[j].id
                     /\ \A i, j \in 1..Len(bs) : i < j => times[i] <= times[j]
                     /\ metadata_blocks' =
                            kept \o [i \in 1..Len(bs) |-> Row(ids[i], doc_id, bs[i], times[i])]
                     /\ saved_blocks' =
                            [i \in 1..Len(bs) |-> Row(ids[i], doc_id, bs[i], 0)]
                     /\ now' = IF bs = <<>> THEN now ELSE times[Len(bs)]
    /\ md_blocks' = <<>>
    /\ markdown' = <<>>
    /\ pc' = "processed"
    /\ UNCHANGED exceptStorage

\* process_source_metadata, lines 190-222 and 284-291: the source is not
\* found, its file is missing, or a statement raises (as the SELECT of the
\* column created_at does on a table sources that has none): an error is
\* answered and the table is as before.
ProcessSourceMetadataFails ==
    /\ pc' = "error"
    /\ md_blocks' = <<>>
    /\ markdown' = <<>>
    /\ UNCHANGED storageVars
    /\ UNCHANGED exceptStorage

\* get_metadata_markdown, lines 559-592: all the rows of the table, ordered
\* by created_at, are given to generate_markdown_export.
GetMetadataMarkdown ==
    /\ \E rows \in SelectOrderByCreatedAt(metadata_blocks), kw \in ExportKeywords :
          /\ md_blocks' = rows
          /\ markdown' = generate_markdown_export(rows, kw)
    /\ pc' = "markdown"
    /\ UNCHANGED storageVars
    /\ UNCHANGED exceptStorage

NextStorage ==
    \/ ProcessSourceMetadata
    \/ ProcessSourceMetadataFails
    \/ GetMetadataMarkdown

SpecStorage == InitStorage /\ [][NextStorage]_vars

----------------------------------------------------------------------------
(* quyet_dinh_handler.py: the span of the decision statement *)

MaxSpanLen == 4

\* A signature line, "HIỆU TRƯỞNG".
Sig == L("sig")

\* A chapter heading without bold markers.
ChuongPlain == [Chuong EXCEPT !.b = FALSE]

\* qd_pat: ^[ \t]*#*\s*\*{0,2}\s*(QUYẾT\s*ĐỊNH|Quyết\s*định)\*{0,2}\s*:?[^\n]*$
IsQdPat(l) == l.k \in {"qd", "qdtitle"}

\* The line where a match of qd_pat at line i ends: after "QUYẾT ĐỊNH:" the
\* rest of the line; without the colon, \s* goes over the line breaks and
\* [^\n]* takes the next line that is not blank (the end of the text when
\* there is none, Len(s) + 1).
QdMatchEnd(s, i) ==
    IF s[i].k = "qd" THEN i
    ELSE LET next == Search({j \in i + 1..Len(s) : ~IsBlank(s[j])})
         IN  IF next = 0 THEN Len(s) + 1 ELSE next

\* noi_nhan_pat: ^[ \t]*[\*\-\u2022]?\s*N[ơo]i\s+nh[aă]n\s*:? has no "ậ" in
\* its class: it matches "Noi nhan", not "Nơi nhận".
noi_nhan_pat == {"noinhan_ascii"}

\* signature_pat: ^(KT\.\s*HIỆU TRƯỞNG|HIỆU TRƯỞNG|TM\.\s*|GIÁM ĐỐC|CHỦ TỊCH)\b
signature_pat == {"sig"}

IsSignature(l) == l.k \in signature_pat

\* article_pat, chuong_pat, phuluc_pat: ^[ \t]*\*{0,2}\s*Điều\s+\d+ and the
\* like, with or without bold markers.
article_pat == {"dieu"}

chuong_pat == {"chuong"}

phuluc_pat == {"phuluc"}

\* Where the match of a pattern on line i starts: \s* in front of the word
\* takes the blank lines before a line without bold markers; nothing does
\* before "**" or before a signature.
BoundaryStart(s, i) ==
    IF IsSignature(s[i]) \/ s[i].b THEN i ELSE MatchStart(s, i)

\* p.search(text, m_qd.end()): the first line after the match of the opener
\* that the pattern matches, 0 when there is none.
SearchAfter(s, after, kinds) == Search({j \in after + 1..Len(s) : s[j].k \in kinds})

\* The span when no line is an opener: (None, None, None, None).
NoSpan == <<>>

\* The lines before a position, text[:p].count('\n'): p is the start of line
\* p, or the end of the text (Len(s) + 1).
LinesBefore(s, p) == IF p > Len(s) THEN Len(s) - 1 ELSE p - 1

\* end_candidates: the first signature line and the first Điều, Chương and
\* Phụ lục lines after the match of the opener.
EndCandidates(s, qd_end) ==
    {BoundaryStart(s, j) : j \in
        {SearchAfter(s, qd_end, signature_pat),
         SearchAfter(s, qd_end, article_pat),
         SearchAfter(s, qd_end, chuong_pat),
         SearchAfter(s, qd_end, phuluc_pat)} \ {0}}

find_quyet_dinh_span(s) ==
    LET m_qd          == Search({i \in 1..Len(s) : IsQdPat(s[i])})
        qd_end        == QdMatchEnd(s, m_qd)
        qd_start_char == MatchStart(s, m_qd)
        m_noi_nhan    == SearchAfter(s, qd_end, noi_nhan_pat)
        end_candidates == EndCandidates(s, qd_end)
        qd_end_char   == IF m_noi_nhan # 0 THEN BoundaryStart(s, m_noi_nhan)
                         ELSE IF end_candidates # {} THEN Min(end_candidates)
                         ELSE Len(s) + 1
        qd_start_line == LinesBefore(s, qd_start_char)
        qd_end_line   == LinesBefore(s, qd_end_char) - 1
    IN  IF m_qd = 0 THEN NoSpan
        ELSE [qd_start_char |-> qd_start_char, qd_end_char |-> qd_end_char,
              qd_start_line |-> qd_start_line,
              qd_end_line   |-> IF qd_end_line < qd_start_line THEN qd_start_line
                                ELSE qd_end_line]

\* The lines of the texts whose span is taken.
SpanLines ==
    {L("plain"), Blank, L("qd"), L("qdtitle"), Dieu(1, {}), BoldDieu(1, {}),
     L("noinhan"), L("noinhan_ascii"), Sig, Chuong, ChuongPlain, PhuLucPlain(1)}

InitSpan ==
    /\ text \in Seqs(SpanLines, MaxSpanLen)
    /\ pc = "start"
    /\ sections = <<>>
    /\ infos = <<>>
    /\ meta = <<>>
    /\ blocks = <<>>
    /\ can_cu = <<>>
    /\ quyet_dinh = <<>>
    /\ llm = LLMOff
    /\ ClassifierIdle
    /\ KeywordIdle
    /\ MarkdownIdle
    /\ StorageIdle
    /\ SpanIdle
    /\ SharedIdle
    /\ DateIdle
    /\ ChunkIdle

FindQuyetDinhSpan ==
    /\ pc = "start"
    /\ span' = find_quyet_dinh_span(text)
    /\ pc' = "span"
    /\ UNCHANGED exceptSpan

NextSpan ==
    \/ FindQuyetDinhSpan
    \/ ExtractQuyetDinhBlock

SpecSpan == InitSpan /\ [][NextSpan]_vars

----------------------------------------------------------------------------
(* The category classifier of the web application: core/category_classifier.py *)

\* The confidence of a classification is written in hundredths: 80 is 0.8.

MAPPING ==
    <<
     [category |-> "admissions", keywords |-> <<
         <<"t", "u", "y", "eer", "n", " ", "s", "i", "n", "h">>
      >>],
     [category |-> "postgraduate_training", keywords |-> <<
         <<"t", "h", "aj", "c", " ", "s", "ix">>,
         <<"t", "i", "ees", "n", " ", "s", "ix">>,
         <<"s", "a", "u", " ", "dd", "aj", "i", " ", "h", "oj", "c">>
      >>],
     [category |-> "academic_affairs", keywords |-> <<
         <<"dd", "af", "o", " ", "t", "aj", "o">>,
         <<"t", "is", "n", " ", "c", "h", "ir">>,
         <<"c", "t", "dd", "t">>,
         <<"g", "d", "t", "c">>,
         <<"g", "i", "ar", "n", "g", " ", "d", "aj", "y">>,
         <<"h", "oj", "c", " ", "t", "aaj", "p">>,
         <<"g", "i", "as", "o", " ", "t", "r", "if", "n", "h">>,
         <<"c", "h", "u", "aar", "n", " ", "dd", "aaf", "u", " ", "r", "a">>,
         <<"t", "i", "n", " ", "h", "oj", "c">>,
         <<"n", "g", "o", "aj", "i", " ", "n", "g", "uwx">>
      >>],
     [category |-> "internship", keywords |-> <<
         <<"t", "h", "uwj", "c", " ", "t", "aaj", "p">>,
         <<"t", "t", "t", "n">>,
         <<"dd", "oof", " ", "as", "n">>,
         <<"k", "h", "o", "as", " ", "l", "u", "aaj", "n">>
      >>],
     [category |-> "distance_learning", keywords |-> <<
         <<"dd", "af", "o", " ", "t", "aj", "o", " ", "t", "uwf", " ", "x", "a">>,
         <<"e", "-", "l", "e", "a", "r", "n", "i", "n", "g">>
      >>],
     [category |-> "finance_and_tuition", keywords |-> <<
         <<"h", "oj", "c", " ", "p", "h", "is">>,
         <<"t", "af", "i", " ", "c", "h", "is", "n", "h">>,
         <<"m", "i", "eex", "n">>,
         <<"g", "i", "ar", "m">>
      >>],
     [category |-> "scholarships", keywords |-> <<
         <<"h", "oj", "c", " ", "b", "oor", "n", "g">>
      >>],
     [category |-> "social_policy", keywords |-> <<
         <<"t", "r", "owj", " ", "c", "aas", "p">>,
         <<"x", "ax">>,
         <<"t", "h", "oo", "n">>,
         <<"h", "oox", " ", "t", "r", "owj", " ", "h", "oj", "c", " ", "t", "aaj", "p">>,
         <<"c", "h", "is", "n", "h", " ", "s", "as", "c", "h">>
      >>],
     [category |-> "student_affairs", keywords |-> <<
         <<"n", "g", "o", "aj", "i", " ", "k", "h", "os", "a">>,
         <<"dd", "as", "n", "h", " ", "g", "i", "as", " ", "h", "o", "aj", "t", " ", "dd", "ooj", "n", "g">>
      >>],
     [category |-> "student_management", keywords |-> <<
         <<"c", "t", "s", "v">>,
         <<"n", "ooj", "i", " ", "q", "u", "y">>,
         <<"t", "h", "er", " ", "s", "i", "n", "h", " ", "v", "i", "ee", "n">>,
         <<"uws", "n", "g", " ", "x", "uwr">>,
         <<"a", "n", " ", "n", "i", "n", "h">>
      >>],
     [category |-> "certificate_management", keywords |-> <<
         <<"v", "aw", "n", " ", "b", "awf", "n", "g">>,
         <<"p", "h", "oo", "i", " ", "b", "awf", "n", "g">>,
         <<"c", "h", "uws", "n", "g", " ", "c", "h", "ir">>,
         <<"q", "u", "ar", "n", " ", "l", "ys", " ", "b", "awf", "n", "g">>
      >>],
     [category |-> "student_conduct", keywords |-> <<
         <<"r", "ef", "n", " ", "l", "u", "y", "eej", "n">>
      >>],
     [category |-> "legal_framework", keywords |-> <<
         <<"v", "aw", "n", " ", "b", "ar", "n", " ", "h", "owj", "p", " ", "n", "h", "aas", "t">>
      >>]
    >>

\* SUPPORTED_EXTENSIONS of core/category_classifier.py: no ".md".
core_SUPPORTED_EXTENSIONS == SubSeq(SUPPORTED_EXTENSIONS, 1, 6)

\* normalize_filename of core/category_classifier.py
core_normalize_filename(filename) ==
    LET base == basename(filename)
        ext  == Search({e \in 1..Len(core_SUPPORTED_EXTENSIONS) :
                           EndsWith(lower(base), lower(core_SUPPORTED_EXTENSIONS[e]))})
        name_without_ext ==
            IF ext = 0 THEN base
            ELSE SubSeq(base, 1, Len(base) - Len(core_SUPPORTED_EXTENSIONS[ext]))
    IN  StripSpaces(lower(name_without_ext))

\* The keywords of one category found in str, in the order of the list.
RECURSIVE KeywordMatches(_, _, _)
KeywordMatches(entry, j, str) ==
    IF j > Len(entry.keywords) THEN <<>>
    ELSE (IF IsSubstring(entry.keywords[j], str)
          THEN <<[category |-> entry.category, keyword |-> entry.keywords[j]]>>
          ELSE <<>>) \o KeywordMatches(entry, j + 1, str)

\* matches: the (category, keyword) pairs found, in the order of MAPPING.
RECURSIVE FindLoop(_, _)
FindLoop(i, str) ==
    IF i > Len(MAPPING) THEN <<>>
    ELSE KeywordMatches(MAPPING[i], 1, str) \o FindLoop(i + 1, str)

find_matching_keywords(normalized_filename) == FindLoop(1, normalized_filename)

\* The dictionary a classification returns.
Classification(c, confidence, method) ==
    [category |-> c, confidence |-> confidence, method |-> method]

\* What the LLM service does when a classification asks for it: it is not
\* asked (use_llm is False), it is not available or raises, or it answers.
ChunkLLM == {"off", "unavailable", "raises", "answers"}

\* llm_service.classify_category(...) when the service answers.
LLMClassification == Classification("admissions", 90, "llm")

\* classify_by_filename of core/category_classifier.py
core_classify_by_filename(filename, llm_call) ==
    LET matches == find_matching_keywords(core_normalize_filename(filename))
    IN  IF filename = <<>> THEN Classification(DEFAULT_CATEGORY, 0, "error")
        ELSE IF llm_call = "answers" THEN LLMClassification
        ELSE IF matches = <<>> THEN Classification(DEFAULT_CATEGORY, 0, "rule_based")
        ELSE Classification(matches[1].category, 80, "rule_based")

\* matching_categories, content_matches: the categories of MAPPING with a
\* keyword in the content, in the order of MAPPING.
RECURSIVE MatchingLoop(_, _)
MatchingLoop(i, content_lower) ==
    IF i > Len(MAPPING) THEN <<>>
    ELSE (IF \E j \in 1..Len(MAPPING[i].keywords) :
                 IsSubstring(MAPPING[i].keywords[j], content_lower)
          THEN <<MAPPING[i].category>> ELSE <<>>) \o MatchingLoop(i + 1, content_lower)

matching_categories(content) == MatchingLoop(1, lower(content))

\* validate_chunk_category: (is_valid, suggested_category)
validate_chunk_category(chunk_content, assigned_category) ==
    LET matching == matching_categories(chunk_content)
        keep     == [is_valid |-> TRUE, suggested_category |-> assigned_category]
    IN  IF chunk_content = <<>> \/ assigned_category = "" THEN keep
        ELSE IF Len(matching) <= 1
                /\ \E i \in 1..Len(matching) : matching[i] = assigned_category
             THEN keep
        ELSE IF Len(matching) > 1
             THEN [is_valid |-> FALSE, suggested_category |-> matching[1]]
        ELSE keep

classify_chunk_content(content, filename, llm_call) ==
    LET filename_category ==
            IF filename # <<>> THEN core_classify_by_filename(filename, "off").category
            ELSE DEFAULT_CATEGORY
        content_matches == matching_categories(content)
        decided ==
            IF content_matches = <<>>
            THEN [final_category |-> filename_category, confidence |-> 60]
            ELSE IF Len(content_matches) = 1
                 THEN [final_category |-> content_matches[1], confidence |-> 80]
            ELSE [final_category |-> content_matches[1], confidence |-> 70]
        validated == validate_chunk_category(content, decided.final_category)
    IN  IF content = <<>> THEN Classification(DEFAULT_CATEGORY, 0, "error")
        ELSE IF llm_call = "answers" THEN LLMClassification
        ELSE IF ~validated.is_valid
             THEN Classification(validated.suggested_category, 50, "rule_based")
        ELSE Classification(decided.final_category, decided.confidence, "rule_based")

\* The category and the confidence split_document gives a block when the
\* LLM is off: _generate_category_rule_based and 0.0.
BlockCategory(section_content) ==
    [category |-> _generate_category_rule_based(section_content), confidence |-> 0,
     method |-> "rule_based"]

\* The file names of the classified chunks.
ChunkFilenames ==
    {<<>>,
     <<"a", "b", "c">>,
     <<"T", "u", "y", "eer", "n", " ", "s", "i", "n", "h", ".", "P", "D", "F">>}

InitChunk ==
    /\ pc = "start"
    /\ chunk \in [content : ClassifyInputs, filename : ChunkFilenames, llm_call : ChunkLLM]
    /\ chunk_result = <<>>
    /\ SplitterIdle
    /\ ClassifierIdle
    /\ KeywordIdle
    /\ MarkdownIdle
    /\ StorageIdle
    /\ SpanIdle
    /\ SharedIdle
    /\ DateIdle

ClassifyChunkContent ==
    /\ pc = "start"
    /\ chunk_result' = classify_chunk_content(chunk.content, chunk.filename, chunk.llm_call)
    /\ pc' = "chunk_content"
    /\ UNCHANGED chunk
    /\ UNCHANGED exceptChunk

CoreClassifyByFilename ==
    /\ pc = "start"
    /\ chunk_result' = core_classify_by_filename(chunk.content, chunk.llm_call)
    /\ pc' = "filename"
    /\ UNCHANGED chunk
    /\ UNCHANGED exceptChunk

SplitDocumentCategory ==
    /\ pc = "start"
    /\ chunk.llm_call = "off"
    /\ chunk_result' = BlockCategory(chunk.content)
    /\ pc' = "block"
    /\ UNCHANGED chunk
    /\ UNCHANGED exceptChunk

NextChunk ==
    \/ ClassifyChunkContent
    \/ CoreClassifyByFilename
    \/ SplitDocumentCategory

SpecChunk == InitChunk /\ [][NextChunk]_vars

----------------------------------------------------------------------------
(* The date of the document: _extract_document_metadata, _extract_metadata_fallback *)

\* A string of digits is a sequence of the characters "0" to "9"; a date is a
\* sequence of digits and "-"; the empty string is <<>>.
Digits == <<"0", "1", "2", "3", "4", "5", "6", "7", "8", "9">>

DigitValue(c) == (CHOOSE i \in 1..Len(Digits) : Digits[i] = c) - 1

\* int(digits)
RECURSIVE int(_)
int(digits) ==
    IF digits = <<>> THEN 0
    ELSE int(SubSeq(digits, 1, Len(digits) - 1)) * 10 + DigitValue(digits[Len(digits)])

\* The decimal digits of n >= 0, as %d writes them.
RECURSIVE Decimal(_)
Decimal(n) ==
    IF n < 10 THEN <<Digits[n + 1]>> ELSE Decimal(n \div 10) \o <<Digits[(n % 10) + 1]>>

\* str.zfill(width)
RECURSIVE zfill(_, _)
zfill(s, width) == IF Len(s) >= width THEN s ELSE zfill(<<"0">> \o s, width)

\* A line "[place, ]ngày <day> tháng <month> năm <year>".
DateLine(location, day, month, year) ==
    [location |-> location, day |-> day, month |-> month, year |-> year]

\* patterns['date_simple'], ngày\s+(\d{1,2})\s+tháng\s+(\d{1,2})\s+năm\s+(\d{4}):
\* one or two digits for the day and for the month, and the first four
\* digits of a year of four digits or more.
date_simple(l) ==
    /\ Len(l.day) \in {1, 2}
    /\ Len(l.month) \in {1, 2}
    /\ Len(l.year) >= 4

\* patterns['date_location'], ([^,]+),\s*ngày\s+...: the same after "place,".
date_location(l) == l.location /\ date_simple(l)

\* The group (\d{4}) of a match.
YearGroup(l) == SubSeq(l.year, 1, 4)

IsLeapYear(year) == year % 4 = 0 /\ (year % 100 # 0 \/ year % 400 = 0)

DaysInMonth(year, month) ==
    IF month = 2 THEN (IF IsLeapYear(year) THEN 29 ELSE 28)
    ELSE IF month \in {4, 6, 9, 11} THEN 30
    ELSE 31

\* datetime(year, month, day) does not raise ValueError.
IsDate(year, month, day) ==
    /\ year \in 1..9999
    /\ month \in 1..12
    /\ day \in 1..DaysInMonth(year, month)

\* date_obj.strftime('%Y-%m-%d'): the C library pads a year below 1000 to
\* four digits or leaves it as it is.
strftime(year, month, day) ==
    {y \o <<"-">> \o zfill(Decimal(month), 2) \o <<"-">> \o zfill(Decimal(day), 2) :
        y \in {Decimal(year), zfill(Decimal(year), 4)}}

\* The try block: the dates a match gives, the empty string on ValueError.
DateOfMatch(l) ==
    LET year     == int(YearGroup(l))
        year_int == IF year < 100 THEN year + (IF year < 50 THEN 2000 ELSE 1900)
                    ELSE year
    IN  IF IsDate(year_int, int(l.month), int(l.day))
        THEN strftime(year_int, int(l.month), int(l.day))
        ELSE {<<>>}

\* The dates _extract_document_metadata can return for a text.
_extract_document_metadata(s) ==
    LET date_match        == Search({i \in 1..Len(s) : date_location(s[i])})
        located           == IF date_match = 0 THEN {<<>>} ELSE DateOfMatch(s[date_match])
        simple_date_match == Search({i \in 1..Len(s) : date_simple(s[i])})
    IN  IF located # {<<>>} THEN located
        ELSE IF simple_date_match = 0 THEN {<<>>}
        ELSE DateOfMatch(s[simple_date_match])

\* The date of GeminiService._extract_metadata_fallback.
_extract_metadata_fallback(content) ==
    LET date_match == Search({i \in 1..Len(content) : date_simple(content[i])})
    IN  IF date_match = 0 THEN <<>>
        ELSE YearGroup(content[date_match]) \o <<"-">>
             \o zfill(content[date_match].month, 2) \o <<"-">>
             \o zfill(content[date_match].day, 2)

MaxDateLines == 2

\* The days, months and years written on the date lines.
Days == {<<"5">>, <<"2", "9">>, <<"3", "1">>}

Months == {<<"2">>, <<"1", "3">>}

Years ==
    {<<"2", "2">>, <<"7", "5">>, <<"2", "0", "2", "4">>, <<"0", "0", "2", "2">>,
     <<"0", "1", "0", "0">>}

DateLines == [location : BOOLEAN, day : Days, month : Months, year : Years]

InitDate ==
    /\ pc = "start"
    /\ date_text \in Seqs(DateLines, MaxDateLines)
    /\ date_str = <<>>
    /\ SplitterIdle
    /\ ClassifierIdle
    /\ KeywordIdle
    /\ MarkdownIdle
    /\ StorageIdle
    /\ SpanIdle
    /\ SharedIdle
    /\ ChunkIdle

ExtractDocumentMetadata ==
    /\ pc = "start"
    /\ date_str' \in _extract_document_metadata(date_text)
    /\ pc' = "document_metadata"
    /\ UNCHANGED date_text
    /\ UNCHANGED exceptDate

ExtractMetadataFallback ==
    /\ pc = "start"
    /\ date_str' = _extract_metadata_fallback(date_text)
    /\ pc' = "metadata_fallback"
    /\ UNCHANGED date_text
    /\ UNCHANGED exceptDate

NextDate ==
    \/ ExtractDocumentMetadata
    \/ ExtractMetadataFallback

SpecDate == InitDate /\ [][NextDate]_vars

----------------------------------------------------------------------------
(* The documents of one process *)

\* split_document for a splitter whose capability does what outcome says
\* (lines 119-184): the blocks with their sources and categories, or an
\* exception.
split_document(s, outcome) ==
    IF Strip(s) = <<>> THEN [raised |-> FALSE, blocks |-> <<>>, meta |-> <<>>]
    ELSE LET secs == IF outcome.enabled THEN _split_with_llm(s, outcome)
                     ELSE _split_by_hierarchy(s)
             srcs == IF outcome.enabled THEN LLMSectionSources(s, outcome)
                     ELSE SectionSources(secs, s)
         IN  IF \E i \in 1..Len(secs) : ~IsString(secs[i].content)
             THEN [raised |-> TRUE, blocks |-> <<>>, meta |-> <<>>]
             ELSE [raised |-> FALSE, blocks |-> BlockLoop(secs),
                   meta |-> MetaLoop(secs, srcs, outcome)]

\* GeminiService.__init__, lines 61-83: the service is enabled when it has a
\* key (the library is installed and accepts the key).
GeminiService(api_key) == [api_key |-> api_key, enabled |-> api_key # ""]

\* get_llm_service, lines 561-577: the instance of the process, made for the
\* first caller.
get_llm_service(instance, api_key) ==
    IF instance = None THEN Some(GeminiService(api_key)) ELSE instance

\* EnhancedVnLegalSplitter.__init__, lines 51-73, as run in a process whose
\* instance is the one given.
EnhancedVnLegalSplitter(instance, api_key, with_llm) ==
    [use_llm |-> with_llm,
     llm_enabled |-> with_llm /\ get_llm_service(instance, api_key).value.enabled]

\* What the capability does for a splitter: what the service answers when
\* the splitter uses it, nothing when it does not.
OutcomeFor(splitter, answer) ==
    IF splitter.llm_enabled /\ splitter.use_llm THEN answer ELSE LLMOff

\* The documents of a process, the keys their splitters are made with ("":
\* no key, in the arguments or in the environment) and what the service
\* answers about them.
Docs == {"A", "B"}

ApiKeys == {"", "key"}

DocTexts == {<<L("cancu"), Dieu(1, {})>>, <<Dieu(1, {}), BoldDieu(2, {"va"})>>, <<Blank>>}

DocAnswers ==
    {LLMOutcome(TRUE, FALSE, <<>>, "admissions"),
     LLMOutcome(TRUE, TRUE, <<Entry(TRUE, "article", <<Dieu(1, {}), L("plain")>>)>>, "")}

Document ==
    [text : DocTexts, api_key : ApiKeys, use_llm : {TRUE}, answer : DocAnswers]
        \cup [text : DocTexts, api_key : ApiKeys, use_llm : {FALSE}, answer : {LLMOff}]


\* The keywords and departments the tables are changed with.
RuntimeKeywords == {<<"admissions", "nhap hoc">>, <<"no_such_category", "tai lieu">>}

Departments == {"Training Department", "Finance"}

DepartmentKeywordLists == {<<"dao tao">>, <<>>}

InitShared ==
    /\ pc = "start"
    /\ documents \in [Docs -> Document]
    /\ _llm_service_instance = None
    /\ splitters = [d \in Docs |-> None]
    /\ returned = [d \in Docs |-> None]
    /\ runtime_keywords = {}
    /\ DEPARTMENT_KEYWORDS =
           [d \in Departments |-> IF d = "Finance" THEN <<"tai chinh", "hoc phi">>
                                  ELSE <<"dao tao">>]
    /\ DEFAULT_DEPARTMENT = "Training Department"
    /\ SplitterIdle
    /\ ClassifierIdle
    /\ KeywordIdle
    /\ MarkdownIdle
    /\ StorageIdle
    /\ SpanIdle
    /\ DateIdle
    /\ ChunkIdle

\* EnhancedVnLegalSplitter(api_key, use_llm) for a document: with use_llm the
\* instance of the process is made if there is none yet.
NewSplitter(d) ==
    /\ splitters[d] = None
    /\ splitters' =
           [splitters EXCEPT ![d] =
                Some(EnhancedVnLegalSplitter(_llm_service_instance, documents[d].api_key,
                                             documents[d].use_llm))]
    /\ _llm_service_instance' =
           IF documents[d].use_llm
           THEN get_llm_service(_llm_service_instance, documents[d].api_key)
           ELSE _llm_service_instance
    /\ pc' = "splitter"
    /\ UNCHANGED <<documents, returned, runtime_keywords, DEPARTMENT_KEYWORDS, DEFAULT_DEPARTMENT>>
    /\ UNCHANGED exceptShared

\* splitter.split_document(text) for a document.
SplitDocument(d) ==
    /\ splitters[d] # None
    /\ returned[d] = None
    /\ returned' =
           [returned EXCEPT ![d] =
                Some(split_document(documents[d].text,
                                    OutcomeFor(splitters[d].value, documents[d].answer)))]
    /\ pc' = "split_document"
    /\ UNCHANGED <<documents, _llm_service_instance, splitters, runtime_keywords,
                   DEPARTMENT_KEYWORDS, DEFAULT_DEPARTMENT>>
    /\ UNCHANGED exceptShared

\* add_keyword_to_category, lines 232-250: the keyword is appended to the
\* list of a category of MAPPING.
AddKeywordToCategory(ck) ==
    /\ runtime_keywords' =
           IF \E i \in 1..Len(MAPPING) : MAPPING[i].category = ck[1]
           THEN runtime_keywords \cup {ck} ELSE runtime_keywords
    /\ pc' = "add_keyword"
    /\ UNCHANGED <<documents, _llm_service_instance, splitters, returned,
                   DEPARTMENT_KEYWORDS, DEFAULT_DEPARTMENT>>
    /\ UNCHANGED exceptShared

\* update_department_keywords, lines 62-79.
UpdateDepartmentKeywords(department, keywords) ==
    /\ department \in DOMAIN DEPARTMENT_KEYWORDS
    /\ DEPARTMENT_KEYWORDS' = [DEPARTMENT_KEYWORDS EXCEPT ![department] = keywords]
    /\ pc' = "update_department"
    /\ UNCHANGED <<documents, _llm_service_instance, splitters, returned,
                   runtime_keywords, DEFAULT_DEPARTMENT>>
    /\ UNCHANGED exceptShared

\* set_default_department, lines 102-120.
SetDefaultDepartment(department) ==
    /\ department \in DOMAIN DEPARTMENT_KEYWORDS \/ department = DEFAULT_DEPARTMENT
    /\ DEFAULT_DEPARTMENT' = department
    /\ pc' = "set_default"
    /\ UNCHANGED <<documents, _llm_service_instance, splitters, returned,
                   runtime_keywords, DEPARTMENT_KEYWORDS>>
    /\ UNCHANGED exceptShared

NextShared ==
    \/ \E d \in Docs : NewSplitter(d)
    \/ \E d \in Docs : SplitDocument(d)
    \/ \E ck \in RuntimeKeywords : AddKeywordToCategory(ck)
    \/ \E department \in Departments, keywords \in DepartmentKeywordLists :
           UpdateDepartmentKeywords(department, keywords)
    \/ \E department \in Departments : SetDefaultDepartment(department)

SpecShared == InitShared /\ [][NextShared]_vars

----------------------------------------------------------------------------
(* Vocabulary of the properties *)

\* A line of the "Nơi nhận" footer heading, with or without diacritics.
IsFooterLine(l) == l.k \in {"noinhan", "noinhan_ascii"}

HasFooterLine(s) == \E i \in 1..Len(s) : IsFooterLine(s[i])

\* The text that remains once the footer the splitter recognises (a
\* "Noi nhan:" line without diacritics) and everything after it is removed.
Kept(s) ==
    LET m == Search({i \in 1..Len(s) : IsNoiNhanTail(s[i])})
    IN  IF m = 0 THEN s ELSE SubSeq(s, 1, m - 1)

\* s is a contiguous run of lines of t.
IsRunOf(s, t) ==
    \E a \in 1..(Len(t) + 1) : \E e \in (a - 1)..Len(t) : s = SubSeq(t, a, e)

BlocksOfType(T) == SelectSeq(blocks, LAMBDA b : b.type \in T)

\* The indexes of the "Điều n" heading lines of s, in increasing order.
DieuLines(s) == InOrder({i \in 1..Len(s) : IsArticle(s[i])})

\* No "Điều" heading of s has the word "và" in its title.
NoVaTitles(s) == \A i \in 1..Len(s) : IsArticle(s[i]) => "va" \notin s[i].t

\* A line that ends the body of the last article: the footer heading or an
\* appendix heading, in any of their written forms.
EndsDieuRegion(l) == IsFooterLine(l) \/ l.k = "phuluc"

\* The last line of the Điều region of s, whose last heading is line h: the
\* line before the first footer or appendix heading after h, else the last
\* line of s.
DieuRegionEnd(s, h) ==
    LET m == Search({i \in h..Len(s) : EndsDieuRegion(s[i])})
    IN  IF m = 0 THEN Len(s) ELSE m - 1

----------------------------------------------------------------------------
(* C1  Footer exclusion *)

\* C1: once split_document has returned, no block contains a "Nơi nhận"
\* line (and so nothing of the footer section that starts with it).
C1_FooterExcluded ==
    pc = "done" => \A i \in 1..Len(blocks) : ~HasFooterLine(blocks[i].content)

----------------------------------------------------------------------------
(* C2  Content fidelity *)

----------------------------------------------------------------------------
(* C3  Exhaustive and disjoint Điều spans *)

----------------------------------------------------------------------------
(* C4  Khoản split trigger *)

\* An Điều heading whose article the splitter keeps whole whatever its body:
\* an Điều 1 with "phạm vi điều chỉnh" in the title, or any Điều whose title
\* has "đối tượng áp dụng" without "phạm vi điều chỉnh".
KeptWhole(l) ==
    \/ l.n = 1 /\ "scope" \in l.t
    \/ "subject" \in l.t /\ "scope" \notin l.t

\* The last line of the article of heading H[i]: the line before the next
\* heading; for the last heading, the line before the first "Nơi nhận" or
\* un-bold "Phụ lục" line, else the last line of s.
ArticleLastLine(s, H, i) ==
    IF i < Len(H) THEN H[i + 1] - 1
    ELSE LET m == Search({x \in H[i]..Len(s) : IsNoiNhan(s[x]) \/ IsPlainPhuLuc(s[x])})
         IN  IF m = 0 THEN Len(s) ELSE m - 1

\* The last line of the clause of numbered line K[j] in an article that ends
\* with line e.  As the specification words it (asWritten), the last clause
\* ends with the article; in the code it ends before the first chapter
\* heading or un-bold "Phụ lục" line that follows it in the article.
ClauseLastLine(s, K, j, e, asWritten) ==
    IF j < Len(K) THEN K[j + 1] - 1
    ELSE LET m == Search({x \in K[j]..e : IsBoldChuong(s[x]) \/ IsPlainPhuLuc(s[x])})
         IN  IF asWritten \/ m = 0 THEN e ELSE m - 1

\* The blocks expected of the article of heading H[i]: one khoan block per
\* numbered line when the title has "và" (and the article is not one kept
\* whole) and there is a numbered line, else one article block.  As the
\* specification words it, only the Điều 1 scope titles are kept whole.
ExpectedOfArticle(s, H, i, asWritten) ==
    LET h == s[H[i]]
        e == ArticleLastLine(s, H, i)
        K == InOrder({x \in H[i]..e : IsKhoanLine(s[x])})
        whole == IF asWritten THEN h.n = 1 /\ "scope" \in h.t ELSE KeptWhole(h)
    IN  IF "va" \in h.t /\ ~whole /\ K # <<>>
        THEN [j \in 1..Len(K) |->
                 Section("khoan", Strip(SubSeq(s, K[j], ClauseLastLine(s, K, j, e, asWritten))),
                         h.n, s[K[j]].n, h.t)]
        ELSE <<Section("article", Strip(SubSeq(s, H[i], e)), h.n, 0, h.t)>>

RECURSIVE ExpectedFrom(_, _, _, _)
ExpectedFrom(s, H, i, asWritten) ==
    IF i > Len(H) THEN <<>>
    ELSE ExpectedOfArticle(s, H, i, asWritten) \o ExpectedFrom(s, H, i + 1, asWritten)

----------------------------------------------------------------------------
(* C5  No split without "và" *)

\* The article block of the whole article of heading H[i].
WholeArticle(s, H, i) ==
    Section("article", Strip(SubSeq(s, H[i], ArticleLastLine(s, H, i))),
            s[H[i]].n, 0, s[H[i]].t)

\* The whole-article blocks of the headings H[i], i in the set I, in order.
WholeArticles(s, H, I) ==
    LET idx == InOrder(I) IN [j \in 1..Len(idx) |-> WholeArticle(s, H, idx[j])]

----------------------------------------------------------------------------
(* C6  Điều 1 special case *)

\* C6: no khoan block belongs to an Điều 1 whose title contains "phạm vi
\* điều chỉnh" (with or without "đối tượng áp dụng"); every such Điều 1 is
\* returned as exactly one article block, its whole article, even when the
\* title contains "và" and the body holds numbered lines.
C6_Dieu1KeptWhole ==
    pc = "done" =>
        LET s == Kept(text)
            H == DieuLines(s)
        IN  /\ \A i \in 1..Len(blocks) :
                   blocks[i].type = "khoan" =>
                       ~(blocks[i].num = 1 /\ "scope" \in blocks[i].title)
            /\ SelectSeq(blocks, LAMBDA b : b.type = "article" /\ b.num = 1
                                                /\ "scope" \in b.title)
                   = WholeArticles(s, H, {i \in 1..Len(H) :
                                             s[H[i]].n = 1 /\ "scope" \in s[H[i]].t})

\* An Điều 1 "Phạm vi điều chỉnh và đối tượng áp dụng" with two numbered
\* lines: one article block of three lines.
C6_Witness ==
    /\ pc = "done"
    /\ text = <<Dieu(1, {"va", "scope", "subject"}), Num(1), Num(2)>>
    /\ blocks = <<Section("article", text, 1, 0, {"va", "scope", "subject"})>>

----------------------------------------------------------------------------
(* C7  End-to-end scenario *)

----------------------------------------------------------------------------
(* C8  Legal-basis aggregation *)

\* The lines of s from the first line of the set From up to the line before
\* the first line of the set Stop that follows it, else up to the last line
\* of s; no line when From is empty.
FromUntil(s, From, Stop) ==
    LET a == Search(From)
        b == IF a = 0 THEN 0 ELSE Search({i \in Stop : i > a})
    IN  IF a = 0 THEN <<>>
        ELSE SubSeq(s, a, IF b = 0 THEN Len(s) ELSE b - 1)

Openers(s) == {i \in 1..Len(s) : IsLegalBasisStart(s[i])}

Unstarred(s) == [i \in 1..Len(s) |-> Unstar(s[i])]

\* The contents of a list of sections.
Contents(secs) == [i \in 1..Len(secs) |-> secs[i].content]

----------------------------------------------------------------------------
(* C9  One decision block *)

\* C9: when the text has a "QUYẾT ĐỊNH" line, split_document returns exactly
\* one decision block, and its content is the lines from the first "QUYẾT
\* ĐỊNH" line up to the line before the first Điều heading that follows it,
\* or, when no Điều heading follows, up to the line before the first "Nơi
\* nhận" line after it (up to the end of the text when there is neither).
C9_OneDecisionBlock ==
    pc = "done" =>
        LET q == Search({i \in 1..Len(text) : IsQuyetDinhLine(text[i])})
            d == Search({i \in q..Len(text) : IsArticle(text[i])})
            f == Search({i \in q..Len(text) : IsFooterLine(text[i])})
            e == IF d # 0 THEN d - 1 ELSE IF f # 0 THEN f - 1 ELSE Len(text)
        IN  q # 0 =>
                Contents(BlocksOfType({"quyet_dinh"})) = <<Strip(SubSeq(text, q, e))>>

----------------------------------------------------------------------------
(* C10  Document order *)

\* The lines of the text at which the content c occurs.
Occurrences(c) ==
    {a \in 1..Len(text) : a + Len(c) - 1 <= Len(text) /\ c = SubSeq(text, a, a + Len(c) - 1)}

\* C10: the blocks returned by split_document are in document order: of any
\* two blocks, the one listed first has an occurrence in the text that
\* starts no later than an occurrence of the one listed after it.
C10_DocumentOrder ==
    pc = "done" =>
        \A i, j \in 1..Len(blocks) :
            i < j => \E a \in Occurrences(blocks[i].content) :
                         \E b \in Occurrences(blocks[j].content) : a <= b

----------------------------------------------------------------------------
(* C11  No empty block *)

\* C11: with or without the LLM capability, every block split_document
\* returns has a content that is not empty or whitespace-only, there is
\* exactly one block per section whose content is not blank (blank sections
\* are dropped), and for an empty or whitespace-only text split_document
\* returns the empty list without splitting and without raising.
C11_NoBlankBlock ==
    /\ pc = "done" =>
           /\ \A i \in 1..Len(blocks) : Strip(blocks[i].content) # <<>>
           /\ Len(blocks) = Len(SelectSeq(sections, LAMBDA x : Strip(x.content) # <<>>))
    /\ Strip(text) = <<>> =>
           /\ pc \notin {"sections", "raised"}
           /\ blocks = <<>>
           /\ pc = "start" => ENABLED ReturnEmpty

\* The capability answered with two sections, one of them blank: one block.
C11_Witness ==
    /\ pc = "done"
    /\ llm.enabled /\ llm.split.ok
    /\ Len(sections) = 2
    /\ \E i \in 1..2 : sections[i].content = <<Blank, Blank>>
    /\ Len(blocks) = 1

----------------------------------------------------------------------------
(* Category classification *)

\* Some keyword of the i-th entry of the table occurs in str.
Matches(table, i, str) ==
    \E j \in 1..Len(table[i].keywords) : IsSubstring(table[i].keywords[j], str)

\* c is the category of the first entry with a keyword in str, the default
\* one when no entry has any, and never the empty string.
FirstMatchWins(table, str, c) ==
    /\ c # ""
    /\ \A i \in 1..Len(table) :
           (Matches(table, i, str) /\ \A h \in 1..(i - 1) : ~Matches(table, h, str))
               => c = table[i].category
    /\ (\A i \in 1..Len(table) : ~Matches(table, i, str)) => c = "training_and_regulations"

\* The table has the specific category, before the general one if it has it.
Precedes(table, specific, general) ==
    /\ \E i \in 1..Len(table) : table[i].category = specific
    /\ \A i, j \in 1..Len(table) :
           (table[i].category = specific /\ table[j].category = general) => i < j

PostgraduateFirst(table) ==
    /\ Precedes(table, "postgraduate_training", "academic_affairs")
    /\ Precedes(table, "postgraduate_training", "training_and_regulations")

----------------------------------------------------------------------------
(* The keyword of a title *)

\* The positions of str where a word starts, and where it ends.
WordStarts(str) == {i \in 1..Len(str) : str[i] # " " /\ (i = 1 \/ str[i - 1] = " ")}

WordEnds(str) == {i \in 1..Len(str) : str[i] # " " /\ (i = Len(str) \/ str[i + 1] = " ")}

\* The k-th smallest element of a set of numbers.
Kth(S, k) == CHOOSE x \in S : Cardinality({y \in S : y <= x}) = k

\* The k-th word of str.
Word(str, k) == SubSeq(str, Kth(WordStarts(str), k), Kth(WordEnds(str), k))

\* kw is the first five words of title, as they are written, with one space
\* between two of them.
IsFirstFiveTokens(kw, title) ==
    LET n == IF Cardinality(WordStarts(title)) < 5 THEN Cardinality(WordStarts(title)) ELSE 5
    IN  /\ Cardinality(WordStarts(kw)) = n
        /\ \A k \in 1..n : Word(kw, k) = Word(title, k)
        /\ Len(kw) = Cardinality({i \in 1..Len(kw) : kw[i] # " "}) + (IF n = 0 THEN 0 ELSE n - 1)

\* C13: what generate_keyword returns (it always returns: the one call that
\* can raise is made under "except Exception") is the first five
\* whitespace-separated tokens of the title whenever the service is absent,
\* disabled or unavailable, or its call raises, or its answer is empty or
\* malformed (holds no word).
C13_FallbackKeyword ==
    pc = "returned" =>
        /\ (~use_llm \/ llm_service # "available" \/ called = "raised")
               => IsFirstFiveTokens(keyword, document_title)
        /\ \/ IsFirstFiveTokens(keyword, document_title)
           \/ WordStarts(keyword) # {}

\* The part of C13 about a service that is absent, disabled or unavailable,
\* or whose call raises.
C13_FallbackWhenNoAnswer ==
    pc = "returned" =>
        ((~use_llm \/ llm_service # "available" \/ called = "raised")
            => IsFirstFiveTokens(keyword, document_title))

\* The service raised on a title of more than five words.
C13_Witness ==
    /\ pc = "returned"
    /\ called = "raised"
    /\ Cardinality(WordStarts(document_title)) > 5

----------------------------------------------------------------------------
(* The structure of the Markdown *)

MarkerLines == {MetadataHeading, NoiDungHeading, Separator}

\* The headings and separators of a Markdown text, in their order.
Markers(md) == SelectSeq(md, LAMBDA l : l \in MarkerLines)

\* The sources of the source lines of a Markdown text, in their order.
SourcesOf(md) ==
    LET lines == SelectSeq(md, LAMBDA l : l.k = "source")
    IN  [i \in 1..Len(lines) |-> lines[i].v]

\* A '## Metadata' and a '## Noi dung' heading for each of n blocks, and one
\* '---' between two consecutive blocks.
RECURSIVE OnePairPerBlock(_)
OnePairPerBlock(n) ==
    IF n = 0 THEN <<>>
    ELSE IF n = 1 THEN <<MetadataHeading, NoiDungHeading>>
    ELSE OnePairPerBlock(n - 1) \o <<Separator, MetadataHeading, NoiDungHeading>>

Structured(bs, md) ==
    /\ Markers(md) = OnePairPerBlock(Len(bs))
    /\ SourcesOf(md) = [i \in 1..Len(bs) |-> bs[i].source]

\* No content of the blocks has a line that is a heading or a separator.
PlainContents(bs) ==
    \A i \in 1..Len(bs) : \A j \in 1..Len(bs[i].content) : bs[i].content[j] \notin MarkerLines

\* C14, as written: for any block list, the Markdown has exactly one
\* '## Metadata' and one '## Noi dung' heading per block, pairwise in the
\* order of the list, exactly one '---' between consecutive blocks and none
\* before the first or after the last.
C14_MarkdownStructureAsWritten ==
    pc \in {"to_markdown", "export"} => Structured(md_blocks, markdown)

\* C14, amended: the same for any block list none of whose contents has a
\* line that is '## Metadata', '## Noi dung' or '---' (the serializers copy
\* the contents as they are).
C14_MarkdownStructure ==
    (pc \in {"to_markdown", "export"} /\ PlainContents(md_blocks))
        => Structured(md_blocks, markdown)

\* to_markdown has serialized two blocks, the first one of several lines.
C14_Witness ==
    /\ pc = "to_markdown"
    /\ Len(md_blocks) = 2
    /\ md_blocks[1].content = <<TextLine, EmptyLine, TextLine>>
    /\ md_blocks[2].source = "Can cu"
    /\ Len(markdown) > 20

----------------------------------------------------------------------------
(* The sources of the blocks *)

\* The source the grammar gives a block of a type: 'Căn cứ', 'Quyết định',
\* 'Điều n', 'Điều n, Khoản k', and 'Chương n — title' or 'Phụ lục n' for
\* the other blocks.
InGrammar(source, type) ==
    IF type = "legal_basis" THEN source = Source("Can cu", 0, 0, Blank)
    ELSE IF type = "quyet_dinh" THEN source = Source("Quyet dinh", 0, 0, Blank)
    ELSE IF type = "article" THEN source.k = "Dieu" /\ source.n > 0
    ELSE IF type = "khoan" THEN source.k = "Dieu, Khoan" /\ source.n > 0 /\ source.khoan > 0
    ELSE \/ source = Source("Chuong", 0, 0, Blank)
         \/ source.k = "Phu luc" /\ source.n > 0

\* C15: every block split_document returns has the source the closed grammar
\* gives its kind of block; no document title and no 'Điều n -> Khoản k' is
\* a source.
C15_SourceGrammar ==
    pc = "done" =>
        /\ Len(meta) = Len(blocks)
        /\ \A i \in 1..Len(blocks) : InGrammar(meta[i].source, blocks[i].type)

----------------------------------------------------------------------------
(* The rule-based fallback *)

\* What split_document returns for the text with use_llm = False.
RuleBasedBlocks == BlockLoop(_split_by_hierarchy(text))

RuleBasedMeta ==
    MetaLoop(_split_by_hierarchy(text),
             SectionSources(_split_by_hierarchy(text), text), LLMOff)

\* The capability is unavailable, or the split call fails.
SplitFallsBack == ~llm.enabled \/ ~llm.split.ok

\* The capability is unavailable, or the classification calls fail.
CategoryFallsBack == ~llm.enabled \/ llm.category = ""

\* C16: when the LLM capability is unavailable or the split call fails,
\* split_document raises nothing and returns the blocks (contents, sources)
\* of the rule-based path; when it is unavailable or the classification
\* call fails, the blocks have the categories the rule-based path gives.
C16_RuleBasedFallback ==
    /\ SplitFallsBack => pc # "raised"
    /\ pc = "done" /\ Strip(text) # <<>> =>
           /\ SplitFallsBack =>
                  /\ blocks = RuleBasedBlocks
                  /\ Len(meta) = Len(RuleBasedMeta)
                  /\ \A i \in 1..Len(meta) : meta[i].source = RuleBasedMeta[i].source
           /\ CategoryFallsBack =>
                  /\ Len(meta) = Len(blocks)
                  /\ \A i \in 1..Len(meta) :
                         meta[i].category = CategoryOfLines(blocks[i].content)

\* The part of it that the code has: with the capability unavailable the
\* blocks are those of the rule-based path, and a failing call raises
\* nothing.
C16_UnavailableIsRuleBased ==
    /\ SplitFallsBack => pc # "raised"
    /\ pc = "done" /\ ~llm.enabled => blocks = RuleBasedBlocks /\ meta = RuleBasedMeta

----------------------------------------------------------------------------
(* The order of the blocks in the database *)

\* The block of a row.
BlockOf(r) == [source |-> r.source, content |-> r.content]

\* The blocks of the rows read that the last request wrote.
ReadBack ==
    LET written == SelectSeq(md_blocks,
                       LAMBDA r : \E i \in 1..Len(saved_blocks) : saved_blocks[i].id = r.id)
    IN  [i \in 1..Len(written) |-> BlockOf(written[i])]

C17_OrderedByCreatedAt ==
    pc = "markdown" =>
        /\ Len(md_blocks) = Len(metadata_blocks)
        /\ \A i, j \in 1..Len(md_blocks) :
               i < j => md_blocks[i].created_at <= md_blocks[j].created_at
        /\ \A i, j \in 1..Len(metadata_blocks) :
               i < j /\ metadata_blocks[i].created_at < metadata_blocks[j].created_at =>
                   \E k, l \in 1..Len(md_blocks) :
                       /\ k < l
                       /\ md_blocks[k] = metadata_blocks[i]
                       /\ md_blocks[l] = metadata_blocks[j]

----------------------------------------------------------------------------
(* The end of the decision statement *)

\* The first decision-opener line of the text, 0 when there is none.
Opener == Search({i \in 1..Len(text) : IsQdPat(text[i])})

\* The first line after the opener that is a "Nơi nhận" line, a signature
\* line, an Điều, Chương or Phụ lục line; 0 when there is none.
FirstAfterOpener(kinds) == Search({j \in Opener + 1..Len(text) : text[j].k \in kinds})

FirstNoiNhan == FirstAfterOpener({"noinhan", "noinhan_ascii"})

\* The end the priority gives: "Nơi nhận", else the signature, else the
\* first Điều, Chương or Phụ lục line, else the end of the text.
PriorityEnd ==
    IF FirstNoiNhan # 0 THEN FirstNoiNhan
    ELSE IF FirstAfterOpener({"sig"}) # 0 THEN FirstAfterOpener({"sig"})
    ELSE IF FirstAfterOpener({"dieu", "chuong", "phuluc"}) # 0
         THEN FirstAfterOpener({"dieu", "chuong", "phuluc"})
    ELSE Len(text) + 1

\* Position p is line q, blank lines before line q apart.
AtLine(p, q) == p <= q /\ \A i \in p..q - 1 : IsBlank(text[i])

\* C18: find_quyet_dinh_span returns no span when the text has no opener
\* line; else the span starts at the first opener line and ends at the first
\* "Nơi nhận" line after it, else at the first signature line, else at the
\* first Điều, Chương or Phụ lục line, else at the end of the text (blank
\* lines in front of a line apart); and, for an opener written with its
\* colon, the content extract_quyet_dinh_block returns is the text of that
\* span without its markers.
C18_EndBoundaryPriority ==
    pc = "span" =>
        IF Opener = 0 THEN span = NoSpan
        ELSE /\ span # NoSpan
             /\ AtLine(span.qd_start_char, Opener)
             /\ AtLine(span.qd_end_char, PriorityEnd)
             /\ text[Opener].k = "qd" =>
                    extract_quyet_dinh_block(text) =
                        Strip(Unstarred(Slice(text, Opener, PriorityEnd)))

\* What the code has: no span without an opener line; the span starts at
\* the opener and ends at the first "Noi nhan" line written without the
\* diacritics of "nhận" after the match of the opener, else at the earliest
\* of the first signature, Điều, Chương and Phụ lục lines after it, else at
\* the end of the text.
C18_EarliestCandidate ==
    pc = "span" =>
        IF Opener = 0 THEN span = NoSpan
        ELSE LET after == QdMatchEnd(text, Opener)
                 noi   == SearchAfter(text, after, noi_nhan_pat)
                 first == SearchAfter(text, after,
                              signature_pat \cup article_pat \cup chuong_pat \cup phuluc_pat)
             IN  /\ span # NoSpan
                 /\ AtLine(span.qd_start_char, Opener)
                 /\ IF noi # 0 THEN AtLine(span.qd_end_char, noi)
                    ELSE IF first # 0 THEN AtLine(span.qd_end_char, first)
                    ELSE span.qd_end_char = Len(text) + 1

----------------------------------------------------------------------------
(* Chapters *)

\* A "Chương" heading line.
IsChuongHeading(l) == l.k = "chuong"

\* C19: no block split_document returns is a chapter heading on its own,
\* and no article or khoản block holds a chapter heading line.
C19_ChaptersSkipped ==
    pc = "done" =>
        \A i \in 1..Len(blocks) :
            /\ blocks[i].type # "chuong"
            /\ blocks[i].type \in {"article", "khoan"} =>
                   \A j \in 1..Len(blocks[i].content) :
                       ~IsChuongHeading(blocks[i].content[j])

\* What the code has: every bold chapter heading of the text (after the cut
\* of the footer) is a block of its own, and the blocks of the chapters come
\* before those of the articles.
C19_ChaptersAreBlocks ==
    pc = "done" =>
        LET cut == _cut_noi_nhan_tail(text)
        IN  /\ Cardinality({i \in 1..Len(blocks) : blocks[i].type = "chuong"})
                   = Cardinality({j \in 1..Len(cut) : IsBoldChuong(cut[j])})
            /\ \A i, j \in 1..Len(blocks) :
                   blocks[i].type = "chuong" /\ blocks[j].type \in {"article", "khoan"}
                       => i < j

----------------------------------------------------------------------------
(* The articles of the decision statement *)

\* The lines of the text inside the span of the decision statement: those
\* numbered qd_start_line to qd_end_line (the line numbers count from 0).
InDecisionSpan ==
    LET sp == find_quyet_dinh_span(text)
    IN  IF sp = NoSpan THEN {}
        ELSE {j \in 1..Len(text) : sp.qd_start_line <= j - 1 /\ j - 1 <= sp.qd_end_line}

\* The Điều lines of the text outside the span of the decision statement.
DieuOutsideSpan == {j \in 1..Len(text) : IsArticle(text[j]) /\ j \notin InDecisionSpan}

\* C20: an Điều line inside the span of the decision statement starts no
\* block: every article or khoản block split_document returns is that of an
\* Điều line outside the span.
C20_NoArticleInDecisionSpan ==
    pc = "done" =>
        \A i \in 1..Len(blocks) :
            blocks[i].type \in {"article", "khoan"} =>
                \E j \in DieuOutsideSpan : text[j].n = blocks[i].num

\* What the code has: the span is not looked at; every Điều line left
\* after the cut of the footer starts an article (whole, or split into its
\* khoản), inside the span or not.
C20_EveryDieuIsAnArticle ==
    pc = "done" =>
        LET cut == _cut_noi_nhan_tail(text)
        IN  \A j \in 1..Len(cut) :
                IsArticle(cut[j]) =>
                    \E i \in 1..Len(blocks) :
                        /\ blocks[i].type \in {"article", "khoan"}
                        /\ blocks[i].num = cut[j].n

----------------------------------------------------------------------------
(* The confidence of the rule-based classifications *)

\* A keyword of the table is in the string.
AnyKeyword(table, str) ==
    \E i \in 1..Len(table) :
        \E j \in 1..Len(table[i].keywords) : IsSubstring(table[i].keywords[j], str)

\* The confidence the rule-based path names as fixed: 0.8.
RuleBasedConfidence == 80

\* A keyword matched in the classification that has just been made: in the
\* file name for classify_by_filename, in the content or the file name for
\* classify_chunk_content, in the content of the block for split_document.
KeywordMatched ==
    IF pc = "filename" THEN AnyKeyword(MAPPING, core_normalize_filename(chunk.content))
    ELSE IF pc = "chunk_content"
         THEN \/ AnyKeyword(MAPPING, lower(chunk.content))
              \/ AnyKeyword(MAPPING, core_normalize_filename(chunk.filename))
    ELSE AnyKeyword(keyword_mapping, lower(chunk.content))

RuleBasedDone ==
    /\ pc \in {"filename", "chunk_content", "block"}
    /\ chunk_result.method = "rule_based"

\* C21: every rule-based classification, by file name or by content, reports
\* the fixed confidence when a keyword matched and 0 when the default
\* category was returned for lack of a match.
C21_TwoValuedConfidence ==
    RuleBasedDone =>
        IF KeywordMatched THEN chunk_result.confidence = RuleBasedConfidence
        ELSE chunk_result.category = DEFAULT_CATEGORY /\ chunk_result.confidence = 0

\* What the code has. classify_by_filename is two-valued; classify_chunk_content
\* reports 0.6 when no keyword is in the content (the default category
\* included), 0.8 for one category and 0.5 for several; split_document
\* reports 0 for every block classified by rule.
C21_ConfidenceByPath ==
    RuleBasedDone =>
        LET n == Len(matching_categories(chunk.content))
        IN  IF pc = "filename"
            THEN chunk_result.confidence = (IF KeywordMatched THEN RuleBasedConfidence ELSE 0)
            ELSE IF pc = "chunk_content"
                 THEN chunk_result.confidence =
                          (IF n = 0 THEN 60 ELSE IF n = 1 THEN RuleBasedConfidence ELSE 50)
            ELSE chunk_result.confidence = 0

----------------------------------------------------------------------------
(* The date of the document *)

\* The text is one date line with a year of two digits that, read with the
\* fifty-year pivot, is a day of the calendar.
PivotYear(l) == (IF int(l.year) < 50 THEN 2000 ELSE 1900) + int(l.year)

TwoDigitYearLine ==
    /\ Len(date_text) = 1
    /\ Len(date_text[1].year) = 2
    /\ IsDate(PivotYear(date_text[1]), int(date_text[1].month), int(date_text[1].day))

\* C22: a date line with a two-digit year YY gives the date 20YY-MM-DD when
\* YY < 50 and 19YY-MM-DD otherwise.
C22_TwoDigitYearPivot ==
    (pc = "document_metadata" /\ TwoDigitYearLine) =>
        date_str = Decimal(PivotYear(date_text[1])) \o <<"-">>
                   \o zfill(date_text[1].month, 2) \o <<"-">>
                   \o zfill(date_text[1].day, 2)

\* What the code has: the patterns take a year of four digits, so a line
\* with a two-digit year gives no date.
C22_TwoDigitYearGivesNoDate ==
    (pc = "document_metadata" /\ \A i \in 1..Len(date_text) : Len(date_text[i].year) = 2) =>
        date_str = <<>>

\* What the code has: the pivot is applied to a year written with four
\* digits that is below 100, "0022" gives 2022.
C22_PivotOnFourDigits ==
    (/\ pc = "document_metadata"
     /\ Len(date_text) = 1
     /\ Len(date_text[1].year) = 4
     /\ int(date_text[1].year) < 100
     /\ IsDate(PivotYear(date_text[1]), int(date_text[1].month), int(date_text[1].day))) =>
        date_str = Decimal(PivotYear(date_text[1])) \o <<"-">>
                   \o zfill(date_text[1].month, 2) \o <<"-">>
                   \o zfill(date_text[1].day, 2)

\* A string yyyy-mm-dd that is a day of the calendar.
IsCalendarDate(s) ==
    /\ Len(s) = 10
    /\ s[5] = "-" /\ s[8] = "-"
    /\ \A i \in {1, 2, 3, 4, 6, 7, 9, 10} : \E d \in 1..Len(Digits) : s[i] = Digits[d]
    /\ IsDate(int(SubSeq(s, 1, 4)), int(SubSeq(s, 6, 7)), int(SubSeq(s, 9, 10)))

\* C23: the extracted date is the empty string or a valid calendar date
\* yyyy-mm-dd, for the extractor of the splitter and for the fallback
\* extractor of the LLM service.
C23_DateEmptyOrValid ==
    pc \in {"document_metadata", "metadata_fallback"} =>
        date_str = <<>> \/ IsCalendarDate(date_str)

\* What the code has: the fallback extractor writes what it matched.
C23_FallbackCopiesMatch ==
    pc = "metadata_fallback" =>
        \/ date_str = <<>> /\ \A i \in 1..Len(date_text) : ~date_simple(date_text[i])
        \/ \E i \in 1..Len(date_text) :
               /\ date_simple(date_text[i])
               /\ SubSeq(date_str, 1, 4) = SubSeq(date_text[i].year, 1, 4)
               /\ int(SubSeq(date_str, 6, 7)) = int(date_text[i].month)
               /\ int(SubSeq(date_str, 9, 10)) = int(date_text[i].day)

\* What the code has: the splitter discards a match that is not a day of the
\* calendar, and writes a year from 1000 on as yyyy-mm-dd.
C23_SplitterDiscardsInvalid ==
    pc = "document_metadata" =>
        \/ date_str = <<>>
        \/ IsCalendarDate(date_str)
        \/ /\ Len(date_str) < 10
           /\ IsCalendarDate(zfill(date_str, 10))
           /\ int(SubSeq(zfill(date_str, 10), 1, 4)) < 1000

----------------------------------------------------------------------------
(* The cache of the keyword generator *)

\* The keywords a computation for a title can give: the answer of the LLM
\* or the first five words of the title.
ComputedFor(title) == LLMAnswers \cup {_fallback_keyword(title)}

\* The step is a call generate_keyword(t), t the title in document_title':
\* it leaves a keyword in the cache, where reset_cache leaves none.
IsGenerateKeywordStep == pc' = "returned" /\ cached_keyword' # None

\* C24: the keyword cache is per title. A call generate_keyword(t) returns
\* the cached keyword, without a call of the LLM, only when the cached title
\* is t; with another title, or after reset_cache, it computes the keyword
\* for t and replaces the cache; what is cached was computed for the cached
\* title.
C24_CachePerTitle ==
    [][IsGenerateKeywordStep =>
          /\ (called' = "cached") <=> (cached_keyword # None /\ _cached_title = Some(document_title'))
          /\ called' = "cached" =>
                 /\ keyword' = cached_keyword.value
                 /\ UNCHANGED <<cached_keyword, _cached_title>>
          /\ called' # "cached" =>
                 /\ keyword' \in ComputedFor(document_title')
                 /\ called' \in {"no", "raised"} => keyword' = _fallback_keyword(document_title')
                 /\ cached_keyword' = Some(keyword')
                 /\ _cached_title' = Some(document_title')
          /\ cached_keyword'.value \in ComputedFor(_cached_title'.value)]_vars

\* A cached keyword has been returned by a generator that asks the LLM.
C24_Witness ==
    /\ pc = "returned"
    /\ called = "cached"
    /\ use_llm /\ llm_enabled
    /\ keyword = <<"k">>

\* The cache holds a keyword and its title together, and after a call the
\* keyword returned and the title of the call.
C24_CacheCoherent ==
    (cached_keyword = None <=> _cached_title = None)
    /\ (pc = "returned" /\ cached_keyword # None =>
            /\ cached_keyword = Some(keyword)
            /\ _cached_title = Some(document_title))

----------------------------------------------------------------------------
(* The termination of generate_keyword *)

\* C25: generate_keyword always terminates with a keyword: a call of the LLM
\* that does not return is cut by a timeout and the caller gets the fallback
\* keyword; at most one attempt is made per invocation.
C25_AlwaysTerminates ==
    (pc = "calling") ~> (pc = "returned" /\ keyword = _fallback_keyword(document_title))

\* What the code has: an invocation makes at most one call of the service,
\* and a call that returns or raises ends the invocation with a keyword, the
\* fallback keyword when it raised.
C25_OneAttemptThenKeyword ==
    pc = "returned" =>
        /\ called \in {"no", "cached", "raised", "answered"}
        /\ called \in {"no", "raised"} => keyword = _fallback_keyword(document_title)
        /\ called = "answered" => keyword \in LLMAnswers

\* What the code has: a generator waiting in a call stays there.
C25_WaitsForever == [][pc = "calling" => pc' = "calling"]_vars

----------------------------------------------------------------------------
(* The sentence before the content of 'Can cu' and 'Quyet dinh' *)

\* The lines generate_markdown_export writes for a block after the heading
\* of its content section and the empty line that follows it.
ContentSection(rendered) ==
    LET heading == Min({j \in 1..Len(rendered) : rendered[j] = NoiDungHeading})
    IN  SubSeq(rendered, heading + 2, Len(rendered))

\* The content section is the sentence with the clause, an empty line, and
\* the content of the block.
StartsWithSentence(section, sentence, clause, content) ==
    /\ Len(section) >= 2
    /\ section[1] = MdLine(sentence, clause)
    /\ section[2] = EmptyLine
    /\ StripLines(SubSeq(section, 3, Len(section))) = StripLines(content)

\* The clause the sentence has for a keyword: none for an empty keyword.
ClauseFor(kw) == IF kw = <<>> THEN "" ELSE KeywordClause(kw)

IsSentence(l) == l.k \in {CanCuSentence, QuyetDinhSentence}

TitleInjected(bs, i, kw, sentences) ==
    LET section == ContentSection(ExportBlock(bs, i, kw))
    IN  IF bs[i].source = "Can cu" /\ CanCuSentence \in sentences
        THEN StartsWithSentence(section, CanCuSentence, ClauseFor(kw), bs[i].content)
        ELSE IF bs[i].source = "Quyet dinh" /\ QuyetDinhSentence \in sentences
        THEN StartsWithSentence(section, QuyetDinhSentence, ClauseFor(kw), bs[i].content)
        ELSE bs[i].source \notin {"Can cu", "Quyet dinh"}
                 => /\ section = LinesOf(bs[i].content)
                    /\ \A j \in 1..Len(section) : ~IsSentence(section[j])

\* C26: in the Markdown of generate_markdown_export the content section of
\* the 'Can cu' block and of the 'Quyet dinh' block starts with the
\* synthesized sentence followed by the content of the block; the sentence
\* ends with the keyword clause when the keyword is not empty and has no
\* clause when it is empty, for both kinds; no other block gets a sentence.
C26_TitleInjection ==
    [][\A kw \in ExportKeywords :
           (pc' = "export" /\ markdown' = generate_markdown_export(md_blocks, kw))
               => \A i \in 1..Len(md_blocks) :
                      TitleInjected(md_blocks, i, kw, {CanCuSentence, QuyetDinhSentence})]_vars

\* What the code has: the claim for the 'Can cu' block and the other blocks,
\* and for the 'Quyet dinh' block when the keyword is not empty.
C26_TitleInjectionCanCu ==
    [][\A kw \in ExportKeywords :
           (pc' = "export" /\ markdown' = generate_markdown_export(md_blocks, kw))
               => \A i \in 1..Len(md_blocks) :
                      /\ TitleInjected(md_blocks, i, kw, {CanCuSentence})
                      /\ kw # <<>> =>
                             TitleInjected(md_blocks, i, kw, {CanCuSentence, QuyetDinhSentence})]_vars

\* What the code has: the sentence of the 'Quyet dinh' block of a document
\* with an empty keyword ends with the words of the clause and no keyword.
C26_QuyetDinhDangling ==
    [][(pc' = "export" /\ markdown' = generate_markdown_export(md_blocks, <<>>))
           => \A i \in 1..Len(md_blocks) :
                  md_blocks[i].source = "Quyet dinh" =>
                      ContentSection(ExportBlock(md_blocks, i, <<>>))[1]
                          = MdLine(QuyetDinhSentence, " lien quan den ")]_vars

----------------------------------------------------------------------------
(* The documents of a process and the state they share *)

\* What split_document returns for a document processed alone: by a splitter
\* made in a process that has made no other.
Alone(d) ==
    split_document(documents[d].text,
                   OutcomeFor(EnhancedVnLegalSplitter(None, documents[d].api_key,
                                                      documents[d].use_llm),
                              documents[d].answer))

\* C27: split_document invocations on different documents, one after another
\* or interleaved, each return the block list they return when run alone:
\* neither the LLM service singleton nor the module-level keyword tables
\* carry anything from one document to another.
C27_NoSharedState ==
    \A d \in Docs : returned[d] # None => returned[d].value = Alone(d)

\* What the code has: a document is split as the first splitter made with
\* the capability in the process decided; the keyword tables change nothing.
C27_FirstCallerDecides ==
    \A d \in Docs :
        returned[d] # None =>
            /\ documents[d].use_llm =>
                   /\ _llm_service_instance # None
                   /\ returned[d].value =
                          split_document(documents[d].text,
                                         OutcomeFor([use_llm |-> TRUE,
                                                     llm_enabled |->
                                                         _llm_service_instance.value.enabled],
                                                    documents[d].answer))
            /\ ~documents[d].use_llm => returned[d].value = Alone(d)

\* What the code has: the documents of a process whose splitters are made
\* with the same key are split as they are alone.
C27_SameKeyNoSharedState ==
    (\A d, e \in Docs : documents[d].api_key = documents[e].api_key)
        => \A d \in Docs : returned[d] # None => returned[d].value = Alone(d)

----------------------------------------------------------------------------
(* C28  Disjoint blocks *)

\* The content c placed at line a and the content d placed at line b of the
\* text have no line in common.
Apart(a, c, b, d) == a + Len(c) - 1 < b \/ b + Len(d) - 1 < a

\* Two blocks can be placed in the text with no line in common.
DisjointBlocks(x, y) ==
    \E a \in Occurrences(x.content) :
        \E b \in Occurrences(y.content) : Apart(a, x.content, b, y.content)

\* C28: the blocks returned by split_document are pairwise disjoint: no line
\* of the text is in more than one block; a chapter heading or an appendix
\* emitted as its own block is not also inside an article or clause block.
C28_BlocksDisjoint ==
    pc = "done" =>
        \A i, j \in 1..Len(blocks) : i < j => DisjointBlocks(blocks[i], blocks[j])

\* What the code has: the article and clause blocks are disjoint from one
\* another, and so are the chapter blocks and the appendix blocks among
\* themselves.
C28_ArticlesDisjoint ==
    pc = "done" =>
        \A i, j \in 1..Len(blocks) :
            (/\ i < j
             /\ \/ {blocks[i].type, blocks[j].type} \subseteq {"article", "khoan"}
                \/ {blocks[i].type, blocks[j].type} \subseteq {"chuong"}
                \/ {blocks[i].type, blocks[j].type} \subseteq {"phu_luc"})
                => DisjointBlocks(blocks[i], blocks[j])

----------------------------------------------------------------------------
(* C29  The text of an article split into clauses *)

\* The article of heading H[i] is split into khoan blocks.
IsSplitByKhoan(s, H, i) ==
    /\ "va" \in s[H[i]].t
    /\ ~KeptWhole(s[H[i]])
    /\ \E x \in H[i]..ArticleLastLine(s, H, i) : IsKhoanLine(s[x])

\* The line l is a line of a khoan block.
InKhoanBlock(l) ==
    \E j \in 1..Len(blocks) :
        /\ blocks[j].type = "khoan"
        /\ \E k \in 1..Len(blocks[j].content) : blocks[j].content[k] = l

\* C29: when an Điều is split into khoan blocks, every non-blank line of the
\* article, its heading line and the lines between the heading and the
\* first numbered clause included, is in one of the blocks.
C29_KhoanSplitLosesNoText ==
    pc = "done" =>
        LET s == Kept(text)
            H == DieuLines(s)
        IN  \A i \in 1..Len(H) :
                IsSplitByKhoan(s, H, i) =>
                    \A a \in H[i]..ArticleLastLine(s, H, i) :
                        ~IsBlank(s[a]) => InKhoanBlock(s[a])

\* What the code has: the lines from the first numbered line of the article
\* to the end of its last clause are in the khoan blocks, and the heading
\* line is in none.
C29_ClausesKeptHeadingLost ==
    pc = "done" =>
        LET s == Kept(text)
            H == DieuLines(s)
        IN  \A i \in 1..Len(H) :
                IsSplitByKhoan(s, H, i) =>
                    LET e == ArticleLastLine(s, H, i)
                        K == InOrder({x \in H[i]..e : IsKhoanLine(s[x])})
                    IN  /\ \A a \in K[1]..ClauseLastLine(s, K, Len(K), e, FALSE) :
                               ~IsBlank(s[a]) => InKhoanBlock(s[a])
                        /\ ~InKhoanBlock(s[H[i]])

----------------------------------------------------------------------------
(* C30  Processing a source again *)

C30_Accumulates ==
    [][pc' = "processed" =>
           /\ Len(metadata_blocks') = Len(metadata_blocks) + Len(saved_blocks')
           /\ SubSeq(metadata_blocks', 1, Len(metadata_blocks)) = metadata_blocks
           /\ \A i \in 1..Len(saved_blocks') :
                  metadata_blocks'[Len(metadata_blocks) + i].id = saved_blocks'[i].id]_vars

====
